---- MODULE Spec2Model ----
(***************************************************************************)
(* Continuous-batching scheduler of the text-generation router:            *)
(*   router/src/queue.rs  - waiting queue, cost models, State::next_batch  *)
(*   router/src/infer.rs  - admission, batching task, response fan-out     *)
(* Time is counted in whole seconds.                                       *)
(***************************************************************************)
EXTENDS Integers, Sequences, FiniteSets, TLC

\* ------------------------------------------------------------------ bounds
MaxId == 4              \* entries appended over one run of the queue model
MaxTime == 2            \* last instant of the clock
MaxCancel == 1          \* dropped receivers whose entry is still held at one time

\* ------------------------------------------------------- program constants
MAX_WAITING_DURATION == 1
CUTOFF_DURATION == 1

NoTime == 0 - 1         \* Option<Instant>::None

\* (truncate, max_new_tokens) of the requests offered to the queue
Shapes == { <<1, 1>>, <<6, 5>> }

\* BatchingConfig values and batch types the queue is constructed with
Configs ==
  { [batch_type |-> "flash",  size_limit |-> 2, weight_limit |-> 6,  prefill_weight_limit |-> 2],
    [batch_type |-> "flash",  size_limit |-> 3, weight_limit |-> 10, prefill_weight_limit |-> 0],
    [batch_type |-> "padded", size_limit |-> 3, weight_limit |-> 121, prefill_weight_limit |-> 14],
    [batch_type |-> "flash",  size_limit |-> 3, weight_limit |-> 30, prefill_weight_limit |-> 2] }

VARIABLES
  config,                       \* State.config + batch type
  entries,                      \* State.entries: the waiting queue
  next_id,                      \* State.next_id
  next_batch_id,                \* State.next_batch_id
  last_seen_batch_size,         \* State.last_seen_batch_size
  checked_request_count,        \* State.checked_request_count
  buffer_contents_insufficient, \* State.buffer_contents_insufficient
  now,                          \* the clock (Instant::now())
  closed,                       \* ids whose receiver has been dropped
  active,                       \* the entries of the running batch
  discarded,                    \* ids of entries that have been dropped
  panicked,                     \* the queue task has panicked
  issued,                       \* history: ids given out by append
  batch_ids,                    \* history: ids of the emitted batches
  call,                         \* history: the last next_batch call
  pc,                           \* batching_task: where the task stands
  notified,                     \* Shared.batching_task: a stored notification
  batch,                        \* batching_task: the Batch about to be prefilled
  new_entries,                  \* batching_task: entries of the extension batch
  cached,                       \* batching_task: cached_batch, << >> for None
  new_cached,                   \* batching_task: new_cached_batch, << >> for None
  waiting_tokens,               \* batching_task: waiting_tokens
  rx,                           \* per entry id: the messages put on its channel
  produced,                     \* backend: tokens generated so far per request
  client_calls,                 \* backend calls made by the last batching step
  step,                         \* history: the last prefill / decode
  permits,                      \* Infer.limit_concurrent_requests: free permits
  gs,                           \* per caller: where its generate_stream stands
  validations,                  \* requests handed to Validation::validate
  gs_last,                      \* history: the last generate_stream return
  args,                         \* a function under study: the arguments of its call
  ret,                          \* a function under study: how far it has run, its result
  chan,                         \* Queue.queue_sender: commands not yet served
  seen                          \* history: ids a next_batch scan has reached

qvars == << config, entries, next_id, next_batch_id, last_seen_batch_size,
            checked_request_count, buffer_contents_insufficient, now, closed,
            active, discarded, panicked, issued, batch_ids, call >>

loopv == << pc, notified, batch, new_entries, cached, new_cached, waiting_tokens,
            rx, produced, client_calls, step >>

inferv == << permits, gs, validations, gs_last >>

wakev == << chan, seen >>
fnv == << args, ret >>

vars == << qvars, loopv, inferv, wakev, fnv >>

\* ------------------------------------------------------------ small helpers
Max(a, b) == IF a >= b THEN a ELSE b

Range(s) == { s[i] : i \in 1..Len(s) }

Ids(S) == { e.id : e \in S }

\* VecDeque::remove(i) for a 0-based index: out of range removes nothing
RemoveAt(s, i) ==
  IF i >= 0 /\ i < Len(s)
    THEN [ k \in 1..(Len(s) - 1) |-> IF k <= i THEN s[k] ELSE s[k + 1] ]
    ELSE s

\* usize::pow(3).sqrt(): integer square root
RECURSIVE SqrtFrom(_, _)
SqrtFrom(n, r) == IF (r + 1) * (r + 1) > n THEN r ELSE SqrtFrom(n, r + 1)
Isqrt(n) == SqrtFrom(n, 0)

\* ---------------------------------------------------------------- cost model
\* Stats are a pair: flash <<total_tokens, 0>>, padded <<max_in, max_out>>
DefaultStats == << 0, 0 >>

Flash_update_stats(stats, input_length, output_length) ==
  << stats[1] + input_length + output_length, 0 >>

Flash_batch_weight(stats, batch_size) == stats[1]

Flash_prefill_weight(stats, batch_size) == stats[1]

Padded_update_stats(stats, input_length, output_length) ==
  << Max(stats[1], input_length), Max(stats[2], output_length) >>

Padded_batch_weight(stats, batch_size) ==
  batch_size * ((stats[1] + stats[2]) * (stats[1] + stats[2]))

Padded_prefill_weight(stats, batch_size) ==
  batch_size * Isqrt(stats[1] * stats[1] * stats[1])

\* tuples of the projected multiset are <<remaining_output, input, id>>
TupleLess(a, b) ==
  \/ a[1] < b[1]
  \/ a[1] = b[1] /\ a[2] < b[2]
  \/ a[1] = b[1] /\ a[2] = b[2] /\ a[3] < b[3]

TreeMax(tree) == CHOOSE t \in tree : \A u \in tree : u = t \/ TupleLess(u, t)

\* tree.iter().rev(): the tuples from the longest projected entry down
RECURSIVE TreeRev(_)
TreeRev(tree) ==
  IF tree = {} THEN << >>
  ELSE << TreeMax(tree) >> \o TreeRev(tree \ { TreeMax(tree) })

Flash_checks_segment_above(this_ol, current_output_len) == this_ol >= current_output_len

\* the segments FlashBatch::exceeds_weight tests against the limit
Flash_checks_segment(this_ol, current_output_len) == this_ol <= current_output_len

RECURSIVE Flash_walk(_, _, _, _, _)
Flash_walk(rev, bs, in_sum, max_total_weight, current_output_len) ==
  IF bs > Len(rev) THEN FALSE
  ELSE LET this_ol == rev[bs][1]
           sum == in_sum + rev[bs][2]
       IN IF /\ Flash_checks_segment(this_ol, current_output_len)
             /\ sum + bs * this_ol > max_total_weight
            THEN TRUE
            ELSE Flash_walk(rev, bs + 1, sum, max_total_weight, current_output_len)

Flash_exceeds_weight(tree, max_total_weight, current_output_len) ==
  Flash_walk(TreeRev(tree), 1, 0, max_total_weight, current_output_len)

RECURSIVE Padded_walk(_, _, _, _, _, _)
Padded_walk(rev, bs, max_in, last_ol, max_total_weight, current_output_len) ==
  IF bs > Len(rev) THEN FALSE
  ELSE LET this_ol == rev[bs][1]
           m == Max(max_in, rev[bs][2])
       IN IF this_ol # last_ol
            THEN IF /\ this_ol <= current_output_len
                    /\ ((m + this_ol) * (m + this_ol)) * bs > max_total_weight
                   THEN TRUE
                   ELSE Padded_walk(rev, bs + 1, m, this_ol,
                                    max_total_weight, current_output_len)
            ELSE Padded_walk(rev, bs + 1, max_in, last_ol,
                             max_total_weight, current_output_len)

Padded_exceeds_weight(tree, max_total_weight, current_output_len) ==
  Padded_walk(TreeRev(tree), 1, 0, 0, max_total_weight, current_output_len)

\* dispatch on the batch type B of State<B>
update_stats(bt, stats, il, ol) ==
  IF bt = "flash" THEN Flash_update_stats(stats, il, ol)
                  ELSE Padded_update_stats(stats, il, ol)

batch_weight(bt, stats, n) ==
  IF bt = "flash" THEN Flash_batch_weight(stats, n) ELSE Padded_batch_weight(stats, n)

prefill_weight(bt, stats, n) ==
  IF bt = "flash" THEN Flash_prefill_weight(stats, n) ELSE Padded_prefill_weight(stats, n)

exceeds_weight(bt, tree, max_total_weight, current_output_len) ==
  IF bt = "flash" THEN Flash_exceeds_weight(tree, max_total_weight, current_output_len)
                  ELSE Padded_exceeds_weight(tree, max_total_weight, current_output_len)

\* BatchType::compute_stats: fold update_stats over a map of entries
RECURSIVE compute_stats(_, _)
compute_stats(bt, S) ==
  IF S = {} THEN DefaultStats
  ELSE LET e == CHOOSE x \in S : TRUE
       IN update_stats(bt, compute_stats(bt, S \ { e }), e.il, e.ol)

\* ------------------------------------------------------ State::next_batch
Tuple(e) == << e.ol - e.generated_tokens, e.il + e.generated_tokens, e.id >>

\* the statistics handed to the coarse weight test (queue.rs:392-394)
coarse_stats(batch_stats, next_stats) == batch_stats

\* the index recorded for a cancelled entry; queue_index is already advanced
drop_index(queue_index) == queue_index

\* the index popped for the i-th chosen entry
pop_index(index, i) == index - i

\* hit_prefill_weight_limit after a prefill rejection
prefill_hit(has_btree) == has_btree

over_prefill_limit_at(weight, limit) == limit > 0 /\ weight >= limit

\* the prefill test of a candidate (queue.rs:438-445)
over_prefill_limit(weight, limit) == limit > 0 /\ weight > limit

\* Option::get_or_insert_with on time_cutoff
cutoff_after_skip(time_cutoff, queue_time) ==
  IF time_cutoff = NoTime THEN queue_time + CUTOFF_DURATION ELSE time_cutoff

\* the scan stops at an entry that came in too long after a skipped one
past_cutoff(time_cutoff, queue_time) ==
  time_cutoff # NoTime /\ queue_time > time_cutoff

size_reached_after(total_count, size_limit) == total_count > size_limit

\* if total_count >= config.size_limit { break }
size_reached(total_count, size_limit) == total_count >= size_limit

ScanInit(ex, start) ==
  [ queue_index |-> start, checked_up_to_index |-> start,
    chosen_indices |-> << >>, indices_to_drop |-> << >>,
    has_btree |-> FALSE, btree |-> {}, time_cutoff |-> NoTime,
    hit_prefill_weight_limit |-> FALSE,
    batch_stats |-> compute_stats(config.batch_type, ex),
    prefill_stats |-> DefaultStats,
    total_count |-> Cardinality(ex), stop |-> FALSE,
    skipped |-> << >>, analysed |-> << >>, unchecked |-> << >>,
    prefill_rejected |-> << >> ]

\* one iteration of 'queue_loop on the entry at 0-based position p of q
ScanStep(q, ex, a, p) ==
  LET entry == q[p + 1]
      bt == config.batch_type
      qi == a.queue_index + 1
      input_len == entry.il
      output_len == entry.ol
      tup == << output_len, input_len, entry.id >>
      next_stats == update_stats(bt, a.batch_stats, input_len, output_len)
      coarse == batch_weight(bt, coarse_stats(a.batch_stats, next_stats),
                             a.total_count + 1) > config.weight_limit
      pending == { Tuple(q[a.chosen_indices[k] + 1]) : k \in 1..Len(a.chosen_indices) }
      base == IF a.has_btree THEN a.btree ELSE { Tuple(e) : e \in ex } \cup pending
      tree == base \cup { tup }
      exceeds == coarse /\ exceeds_weight(bt, tree, config.weight_limit, output_len)
      has2 == a.has_btree \/ coarse
      tree2 == IF has2 THEN tree ELSE {}
      next_prefill_stats == update_stats(bt, a.prefill_stats, input_len, 0)
      pw == prefill_weight(bt, next_prefill_stats, Len(a.chosen_indices) + 1)
      over_prefill == over_prefill_limit(pw, config.prefill_weight_limit)
      cui == a.checked_up_to_index + 1
      \* history: the candidates let past the coarse test, with the weight of
      \* the batch that includes them
      unchecked == IF coarse THEN a.unchecked
                   ELSE Append(a.unchecked,
                          [ id |-> entry.id,
                            weight |-> batch_weight(bt, next_stats, a.total_count + 1) ])
  IN
  IF past_cutoff(a.time_cutoff, entry.queue_time) THEN [ a EXCEPT !.stop = TRUE ]
  ELSE IF entry.id \in closed THEN
    [ a EXCEPT !.queue_index = qi,
               !.indices_to_drop = Append(a.indices_to_drop, drop_index(qi)) ]
  ELSE IF exceeds THEN
    [ a EXCEPT !.queue_index = qi, !.checked_up_to_index = cui,
               !.has_btree = TRUE, !.btree = base,
               !.time_cutoff = cutoff_after_skip(a.time_cutoff, entry.queue_time),
               !.skipped = Append(a.skipped, entry.id),
               !.unchecked = unchecked,
               !.analysed = Append(a.analysed, entry.id) ]
  ELSE IF over_prefill THEN
    [ a EXCEPT !.queue_index = qi, !.checked_up_to_index = cui,
               !.has_btree = has2,
               !.btree = IF a.has_btree \/ coarse THEN tree2 \ { tup } ELSE {},
               !.hit_prefill_weight_limit =
                   a.hit_prefill_weight_limit \/ prefill_hit(has2),
               !.prefill_rejected = Append(a.prefill_rejected, entry.id),
               !.time_cutoff = cutoff_after_skip(a.time_cutoff, entry.queue_time),
               !.skipped = Append(a.skipped, entry.id),
               !.unchecked = unchecked,
               !.analysed = IF coarse THEN Append(a.analysed, entry.id) ELSE a.analysed ]
  ELSE
    [ a EXCEPT !.queue_index = qi, !.checked_up_to_index = cui,
               !.has_btree = has2, !.btree = tree2,
               !.prefill_stats = IF config.prefill_weight_limit > 0
                                   THEN next_prefill_stats ELSE a.prefill_stats,
               !.batch_stats = next_stats,
               !.chosen_indices = Append(a.chosen_indices, qi - 1),
               !.total_count = a.total_count + 1,
               !.stop = size_reached(a.total_count + 1, config.size_limit),
               !.unchecked = unchecked,
               !.analysed = IF coarse THEN Append(a.analysed, entry.id) ELSE a.analysed ]

\* for (entry_id, entry) in self.entries.range(queue_index..)
RECURSIVE Scan(_, _, _, _)
Scan(q, ex, a, p) ==
  IF p >= Len(q) \/ a.stop THEN a
  ELSE Scan(q, ex, ScanStep(q, ex, a, p), p + 1)

\* while the front entry is disconnected: pop_front
RECURSIVE pop_cancelled_front(_)
pop_cancelled_front(q) ==
  IF q # << >> /\ q[1].id \in closed THEN pop_cancelled_front(Tail(q)) ELSE q

\* indices_to_drop.iter().for_each(|i| self.entries.remove(*i))
RECURSIVE drop_cancelled(_, _, _)
drop_cancelled(q, idx, k) ==
  IF k > Len(idx) THEN q ELSE drop_cancelled(RemoveAt(q, idx[k]), idx, k + 1)

\* State::next_entry_waiting_too_long
next_entry_waiting_too_long(q) ==
  q # << >> /\ now - q[1].queue_time > MAX_WAITING_DURATION

batched_unstamped(entry, t) == entry

\* entry.batch_time = some_now
batched(entry, t) == [ entry EXCEPT !.batch_time = t ]

queue_after_pop_kept(q, at) == q

\* self.entries.remove(at): the queue once the chosen entry has been taken out
queue_after_pop(q, at) == RemoveAt(q, at)

\* chosen_indices.iter().enumerate().map(|(i, index)| entries.remove(index - i).expect("bug"))
\* r = [q, batch, bug]: the queue left, the entries taken, whether expect failed
RECURSIVE pop_chosen(_, _, _)
pop_chosen(r, chosen, k) ==
  IF k > Len(chosen) \/ r.bug THEN r
  ELSE LET at == pop_index(chosen[k], k - 1)
       IN IF at >= 0 /\ at < Len(r.q)
            THEN pop_chosen([ q |-> queue_after_pop(r.q, at),
                              batch |-> Append(r.batch, batched(r.q[at + 1], now)),
                              bug |-> FALSE ], chosen, k + 1)
            ELSE [ r EXCEPT !.bug = TRUE ]

\* the value of a next_batch call that returns no new batch
NoBatch(q, crc, lsbs, bci, why, a, q0) ==
  [ entries |-> q, checked_request_count |-> crc, last_seen_batch_size |-> lsbs,
    buffer_contents_insufficient |-> bci, next_batch_id |-> next_batch_id,
    some |-> FALSE, batch |-> << >>, panic |-> FALSE, path |-> why,
    start |-> a.start, picked |-> a.picked, skipped |-> a.skipped,
    hit |-> a.hit, scanned_from |-> q0, reached |-> a.reached,
    unchecked |-> a.unchecked, prefill_rejected |-> a.prefill_rejected ]

NoScan == [ start |-> 0, picked |-> << >>, skipped |-> << >>, hit |-> FALSE,
            reached |-> {}, unchecked |-> << >>, prefill_rejected |-> << >> ]

batch_id_after_stuck(nbid) == nbid

\* the id given to the emitted batch, and the counter after it
batch_id_of(nbid) == nbid
batch_id_after(nbid) == nbid + 1

\* State::next_batch(existing) without the existing batch it hands back: every
\* field the call leaves behind, the batch it returns (some, batch) and whether
\* it panicked
new_batch(ex) ==
  LET total_count == Cardinality(ex)
      changed == total_count # last_seen_batch_size
      crc1 == IF changed THEN 0 ELSE checked_request_count
      q1 == pop_cancelled_front(entries)
      crc2 == IF Len(q1) # Len(entries) THEN 0 ELSE crc1
      a == Scan(q1, ex, ScanInit(ex, crc2), crc2)
      tr == [ start |-> crc2,
              reached |-> { q1[k].id : k \in (crc2 + 1)..a.queue_index },
              picked |-> [ k \in 1..Len(a.chosen_indices) |-> q1[a.chosen_indices[k] + 1].id ],
              skipped |-> a.skipped, hit |-> a.hit_prefill_weight_limit,
              unchecked |-> a.unchecked, prefill_rejected |-> a.prefill_rejected ]
      q2 == drop_cancelled(q1, a.indices_to_drop, 1)
      popped == pop_chosen([ q |-> q2, batch |-> << >>, bug |-> FALSE ], a.chosen_indices, 1)
  IN
  IF total_count >= config.size_limit THEN
    NoBatch(entries, checked_request_count, last_seen_batch_size,
            buffer_contents_insufficient, "full", NoScan, entries)
  ELSE IF ex # {} /\ ( \/ Len(q1) <= crc2
                       \/ buffer_contents_insufficient /\ ~next_entry_waiting_too_long(q1) ) THEN
    NoBatch(q1, crc2, total_count, buffer_contents_insufficient, "nothing_new", NoScan, q1)
  ELSE IF crc2 > Len(q1) THEN
    [ NoBatch(q1, crc2, total_count, buffer_contents_insufficient, "range", NoScan, q1)
        EXCEPT !.panic = TRUE ]
  ELSE IF a.chosen_indices = << >> THEN
    NoBatch(q2, a.checked_up_to_index, total_count, buffer_contents_insufficient,
            "none_chosen", tr, q1)
  ELSE IF /\ ~a.hit_prefill_weight_limit /\ ex # {}
          /\ ~next_entry_waiting_too_long(q2)
          /\ batch_weight(config.batch_type, a.batch_stats, a.total_count)
               < config.weight_limit \div 2 THEN
    NoBatch(q2, a.checked_up_to_index, total_count, TRUE, "insufficient", tr, q1)
  ELSE IF popped.bug THEN
    [ NoBatch(popped.q, 0, total_count, buffer_contents_insufficient, "expect", tr, q1)
        EXCEPT !.panic = TRUE, !.batch = popped.batch ]
  ELSE
    [ entries |-> popped.q, checked_request_count |-> 0,
      last_seen_batch_size |-> total_count,
      buffer_contents_insufficient |-> FALSE,
      next_batch_id |-> batch_id_after(next_batch_id),
      some |-> TRUE, batch |-> popped.batch, panic |-> FALSE, path |-> "emit",
      start |-> tr.start, picked |-> tr.picked, skipped |-> tr.skipped,
      hit |-> tr.hit, scanned_from |-> q1, reached |-> tr.reached,
      unchecked |-> tr.unchecked, prefill_rejected |-> tr.prefill_rejected ]

returned_existing_emptied(ex) == {}

\* (existing_entries_opt, ..): the existing batch goes back as it came
returned_existing(ex) == ex

\* State::next_batch(existing): new_batch and the existing batch returned
next_batch(ex) == new_batch(ex) @@ [ existing |-> returned_existing(ex) ]

\* ------------------------------------------------------------ the queue model
NoCall == [ op |-> "none" ]

NewEntry(id, shape) ==
  [ id |-> id, il |-> shape[1], ol |-> shape[2], generated_tokens |-> 0,
    queue_time |-> now, batch_time |-> NoTime ]

\* the id given to an appended entry, and the counter after it
entry_id_of(nid) == nid
entry_id_after(nid) == nid + 1

NoStep == [ op |-> "none" ]
NoReturn == [ result |-> "none" ]

\* the batching task and the callers before anything has happened
LoopIdle ==
  /\ pc = "idle"
  /\ notified = FALSE
  /\ batch = << >>
  /\ new_entries = {}
  /\ cached = << >>
  /\ new_cached = << >>
  /\ waiting_tokens = 1
  /\ rx = << >>
  /\ produced = << >>
  /\ client_calls = << >>
  /\ step = NoStep

InferIdle ==
  /\ permits = 0
  /\ gs = << >>
  /\ validations = 0
  /\ gs_last = NoReturn

\* no function is under study
FnIdle ==
  /\ args = << >>
  /\ ret = << >>

\* Queue::new: no command has been sent
WakeIdle ==
  /\ chan = << >>
  /\ seen = {}

\* State::new
Init ==
  /\ config \in Configs
  /\ entries = << >>
  /\ next_id = 0
  /\ next_batch_id = 0
  /\ last_seen_batch_size = 0
  /\ checked_request_count = 0
  /\ buffer_contents_insufficient = FALSE
  /\ now = 0
  /\ closed = {}
  /\ active = {}
  /\ discarded = {}
  /\ panicked = FALSE
  /\ issued = << >>
  /\ batch_ids = << >>
  /\ call = NoCall
  /\ LoopIdle
  /\ WakeIdle
  /\ FnIdle
  /\ InferIdle

\* the record kept of an append: the flag it found and left
AppendRecord == [ op |-> "append", insufficient |-> buffer_contents_insufficient ]

\* State::append
QAppend(shape) ==
  /\ ~panicked
  /\ UNCHANGED << loopv, inferv, wakev, fnv >>
  /\ next_id < MaxId
  /\ entries' = Append(entries, NewEntry(entry_id_of(next_id), shape))
  /\ next_id' = entry_id_after(next_id)
  /\ issued' = Append(issued, entry_id_of(next_id))
  /\ call' = AppendRecord
  /\ UNCHANGED << config, next_batch_id, last_seen_batch_size, checked_request_count,
                  buffer_contents_insufficient, now, closed, active, discarded,
                  panicked, batch_ids >>

\* the client drops the receiver of a waiting entry
DropReceiver(id) ==
  /\ ~panicked
  /\ UNCHANGED << loopv, inferv, wakev, fnv >>
  /\ id \in Ids(Range(entries)) \ closed
  /\ Cardinality(closed) < MaxCancel
  /\ closed' = closed \cup { id }
  /\ call' = NoCall
  /\ UNCHANGED << config, entries, next_id, next_batch_id, last_seen_batch_size,
                  checked_request_count, buffer_contents_insufficient, now, active,
                  discarded, panicked, issued, batch_ids >>

\* one second passes while entries wait (only waiting times are ever read)
Tick ==
  /\ ~panicked
  /\ UNCHANGED << loopv, inferv, wakev, fnv >>
  /\ entries # << >>
  /\ now < MaxTime
  /\ now' = now + 1
  /\ call' = NoCall
  /\ UNCHANGED << config, entries, next_id, next_batch_id, last_seen_batch_size,
                  checked_request_count, buffer_contents_insufficient, closed, active,
                  discarded, panicked, issued, batch_ids >>

\* what next_batch reads of an entry of the existing batch (queue.rs:178-186, 408-414)
Existing(e) ==
  [ id |-> e.id, il |-> e.il, ol |-> e.ol, generated_tokens |-> e.generated_tokens ]

\* the record kept of a next_batch call
CallRecord(r, ex) ==
  [ op |-> "next_batch", existing |-> ex, pre |-> entries, at |-> now,
    closed |-> closed, cursor |-> checked_request_count,
    insufficient |-> buffer_contents_insufficient,
    last_seen |-> last_seen_batch_size, r |-> r ]

\* the queue task serves NextBatch { entries: existing }; the batching task
\* extends its entries with the new batch
QNextBatch ==
  /\ ~panicked
  /\ UNCHANGED << loopv, inferv, wakev, fnv >>
  /\ \E r \in { next_batch(active) } :
        /\ call' = CallRecord(r, active)
        /\ IF r.panic
             THEN /\ panicked' = TRUE
                  /\ entries' = << >>
                  /\ active' = {}
                  /\ discarded' = Range(issued)
                  /\ closed' = {}
                  /\ UNCHANGED << next_batch_id, last_seen_batch_size,
                                  checked_request_count, buffer_contents_insufficient,
                                  batch_ids >>
             ELSE /\ entries' = r.entries
                  /\ checked_request_count' = r.checked_request_count
                  /\ last_seen_batch_size' = r.last_seen_batch_size
                  /\ buffer_contents_insufficient' = r.buffer_contents_insufficient
                  /\ next_batch_id' = r.next_batch_id
                  /\ batch_ids' = IF r.some THEN Append(batch_ids, batch_id_of(next_batch_id))
                                            ELSE batch_ids
                  /\ active' = r.existing \cup { Existing(e) : e \in Range(r.batch) }
                  /\ discarded' = discarded \cup
                       (Ids(Range(entries)) \ (Ids(Range(r.entries)) \cup Ids(Range(r.batch))))
                  /\ closed' = closed \cap (Ids(Range(r.entries)) \cup Ids(Range(r.batch))
                                              \cup Ids(active))
                  /\ UNCHANGED panicked
  /\ UNCHANGED << config, next_id, now, issued >>

\* an entry of the running batch ends (End sent, or dropped as cancelled)
Retire(e) ==
  /\ ~panicked
  /\ UNCHANGED << loopv, inferv, wakev, fnv >>
  /\ e \in active
  /\ active' = active \ { e }
  /\ discarded' = discarded \cup { e.id }
  /\ closed' = closed \ { e.id }
  /\ call' = NoCall
  /\ UNCHANGED << config, entries, next_id, next_batch_id, last_seen_batch_size,
                  checked_request_count, buffer_contents_insufficient, now,
                  panicked, issued, batch_ids >>

Next ==
  \/ \E shape \in Shapes : QAppend(shape)
  \/ \E id \in 0..(MaxId - 1) : DropReceiver(id)
  \/ Tick
  \/ QNextBatch
  \/ \E e \in active : Retire(e)

Spec == Init /\ [][Next]_vars


\* ---------------------------------------------------- claims on the queue
IsCall == call.op = "next_batch"
Emitted == IsCall /\ call.r.some
BatchSet == Range(call.r.batch)
BatchIds == Ids(BatchSet)

Remaining(e) == e.ol - e.generated_tokens
CurrentInput(e) == e.il + e.generated_tokens

RECURSIVE SumInput(_)
SumInput(S) ==
  IF S = {} THEN 0
  ELSE LET e == CHOOSE x \in S : TRUE IN CurrentInput(e) + SumInput(S \ { e })

RECURSIVE MaxInput(_)
MaxInput(S) ==
  IF S = {} THEN 0
  ELSE LET e == CHOOSE x \in S : TRUE IN Max(CurrentInput(e), MaxInput(S \ { e }))

\* the members still running after s more decode steps, and what they weigh
Running(M, s) == { e \in M : Remaining(e) >= s }
FutureWeight(M, s) ==
  LET R == Running(M, s)
  IN IF config.batch_type = "flash"
       THEN SumInput(R) + Cardinality(R) * s
       ELSE Cardinality(R) * ((MaxInput(R) + s) * (MaxInput(R) + s))

WithinBudget(M) ==
  \A m \in M : FutureWeight(M, Remaining(m)) <= config.weight_limit

\* C1: a batch returned by next_batch, together with the batch it extends,
\* never weighs more than weight_limit at any future decode step
C1_WeightBound ==
  Emitted => WithinBudget(call.existing \cup { Existing(e) : e \in BatchSet })

\* C3: no two appended entries share an id and no two emitted batches share an id
NoRepeat(s) == \A i, j \in 1..Len(s) : i # j => s[i] # s[j]
C3_Uniqueness == NoRepeat(issued) /\ NoRepeat(batch_ids)
C3_Witness == Len(issued) >= 3 /\ Len(batch_ids) >= 2

\* C4: with prefill_weight_limit > 0 the entries placed in a returned batch
\* have a prefill weight within the limit
RECURSIVE PrefillStats(_)
PrefillStats(S) ==
  IF S = {} THEN DefaultStats
  ELSE LET e == CHOOSE x \in S : TRUE
       IN update_stats(config.batch_type, PrefillStats(S \ { e }), e.il, 0)
C4_PrefillBound ==
  (Emitted /\ config.prefill_weight_limit > 0) =>
     prefill_weight(config.batch_type, PrefillStats(BatchSet), Cardinality(BatchSet))
        <= config.prefill_weight_limit

\* an entry on its own within the weight budget / within the prefill limit
FitsWeightAlone(e) == WithinBudget({ e })
FitsPrefillAlone(e) ==
  \/ config.prefill_weight_limit = 0
  \/ prefill_weight(config.batch_type, PrefillStats({ e }), 1) <= config.prefill_weight_limit

\* C5: no existing batch, queue [A, B], A alone over the weight budget, B fits,
\* both open, B queued within 1 s of A: the call returns B alone, A stays queued
C5_Case ==
  /\ IsCall /\ call.existing = {} /\ Len(call.pre) = 2
  /\ call.closed \cap Ids(Range(call.pre)) = {}
  /\ ~FitsWeightAlone(call.pre[1])
  /\ FitsWeightAlone(call.pre[2]) /\ FitsPrefillAlone(call.pre[2])
  /\ call.pre[2].queue_time <= call.pre[1].queue_time + CUTOFF_DURATION
C5_Bypass ==
  C5_Case => /\ call.r.some
             /\ BatchIds = { call.pre[2].id }
             /\ ~call.r.panic /\ Ids(Range(entries)) = { call.pre[1].id }

\* C6: an entry placed in a batch while an earlier entry that was skipped for
\* not fitting is still waiting was queued at most CUTOFF_DURATION after it
SkippedWaiting ==
  { a \in Range(entries) :
       \/ a.id \in Range(call.r.skipped)
       \/ \E k \in 1..call.r.start : call.r.scanned_from[k].id = a.id }
C6_Cutoff ==
  Emitted =>
    \A b \in BatchSet : \A a \in SkippedWaiting :
       a.id < b.id => b.queue_time <= a.queue_time + CUTOFF_DURATION

\* C8 as claimed: with no existing batch and an open entry waiting, a call made
\* once the head entry has waited longer than MAX_WAITING_DURATION returns a batch
OpenWaiting == { e \in Range(call.pre) : e.id \notin call.closed }
C8_Case ==
  /\ IsCall /\ call.existing = {} /\ call.pre # << >>
  /\ call.closed \cap Ids(Range(call.pre)) = {}
  /\ FitsWeightAlone(call.pre[1]) /\ FitsPrefillAlone(call.pre[1])
MaxReq == 3             \* requests appended over one run of the batching loop

LoopShapes == { <<1, 2>>, <<1, 3>> }

LoopConfigs ==
  { [ batch_type |-> "flash", size_limit |-> 3, weight_limit |-> 3,
      prefill_weight_limit |-> 0 ],
    [ batch_type |-> "flash", size_limit |-> 2, weight_limit |-> 8,
      prefill_weight_limit |-> 0 ] }

\* Batch handed to the backend (queue.rs:533-537)
Batch(id, ents) == [ id |-> id, ids |-> Ids(ents) ]

\* CachedBatch handed back by the backend: id, request_ids, size
CachedBatch(id, ids) == [ id |-> id, request_ids |-> ids, size |-> Cardinality(ids) ]

EntryOf(ents, id) == CHOOSE e \in ents : e.id = id

\* requests the backend must finish now: max_new_tokens reached
Forced(ents, ids) ==
  { id \in ids : (IF id \in DOMAIN produced THEN produced[id] ELSE 0) + 1
                    >= EntryOf(ents, id).ol }

\* what a backend call may answer: an error, or one generation per request
\* with the set fin of requests that carry generated_text
Outcomes(ents, ids) ==
  { [ ok |-> FALSE, details |-> FALSE, fin |-> {} ] } \cup
  { [ ok |-> TRUE, details |-> d, fin |-> f ] :
      d \in BOOLEAN, f \in { g \in SUBSET ids : Forced(ents, ids) \subseteq g } }

\* the Generation of one request: prefill_tokens present, one token,
\* generated_text present
Generation(id, details, out) ==
  [ request_id |-> id, prefill_tokens |-> details, n |-> 1,
    generated_text |-> id \in out.fin ]

\* the backend's next batch: None once every request has stopped
BackendNext(id, ids, out) ==
  IF ids \subseteq out.fin THEN << >> ELSE << CachedBatch(id, ids) >>

\* send_responses: the messages sent and the value returned
token_message(generated_text, k, n) ==
  IF generated_text /\ k = n THEN "End" ELSE "Intermediate"

channel_closed_never(id) == FALSE

\* entry.response_tx.is_closed()
channel_closed(id) == id \in closed

send_responses(generation, entry) ==
  IF channel_closed(entry.id)
    THEN [ msgs |-> << >>, stopped |-> TRUE ]
    ELSE [ msgs |-> (IF generation.prefill_tokens THEN << "Prefill" >> ELSE << >>)
                      \o [ k \in 1..generation.n |->
                             token_message(generation.generated_text, k, generation.n) ],
           stopped |-> generation.generated_text ]

\* filter_send_generations: entries left, and the messages each entry was sent
filter_send_generations(generations, ents) ==
  LET sent(e) == send_responses(CHOOSE g \in generations : g.request_id = e.id, e)
      answered == { e \in ents : e.id \in { g.request_id : g \in generations } }
  IN [ entries |-> { e \in ents : ~(e \in answered /\ sent(e).stopped) },
       msgs |-> [ id \in Ids(answered) |-> sent(EntryOf(ents, id)).msgs ] ]

no_need_to_filter_always(size, n) == size >= n

\* if batch.size as usize == entries.len() { return Some(batch) }
no_need_to_filter(size, n) == size = n

kept_ids_all(request_ids, ents) == request_ids

\* batch.request_ids.retain(|id| entries.contains_key(id))
kept_ids(request_ids, ents) == request_ids \cap Ids(ents)

filter_batch_silent(next, ents) ==
  IF next = << >> THEN [ cached |-> << >>, calls |-> << >> ]
  ELSE IF no_need_to_filter(next[1].size, Cardinality(ents))
    THEN [ cached |-> next, calls |-> << >> ]
  ELSE LET kept == kept_ids(next[1].request_ids, ents)
       IN IF kept = {}
            THEN [ cached |-> << >>, calls |-> << >> ]
            ELSE [ cached |-> << CachedBatch(next[1].id, kept) >>,
                   calls |-> << [ op |-> "filter_batch", id |-> next[1].id,
                                  ids |-> kept ] >> ]

\* filter_batch: the cached batch kept, and the backend calls made
filter_batch(next, ents) ==
  IF next = << >> THEN [ cached |-> << >>, calls |-> << >> ]
  ELSE IF no_need_to_filter(next[1].size, Cardinality(ents))
    THEN [ cached |-> next, calls |-> << >> ]
  ELSE LET kept == kept_ids(next[1].request_ids, ents)
       IN IF kept = {}
            THEN [ cached |-> << >>,
                   calls |-> << [ op |-> "clear_cache", id |-> next[1].id ] >> ]
            ELSE [ cached |-> << CachedBatch(next[1].id, kept) >>,
                   calls |-> << [ op |-> "filter_batch", id |-> next[1].id,
                                  ids |-> kept ] >> ]

send_errors_none(ents) == [ id \in Ids(ents) |-> << >> ]

\* send_errors: every entry is drained and sent Err
send_errors(ents) == [ id \in Ids(ents) |-> IF id \in closed THEN << >> ELSE << "Err" >> ]

\* rx after the messages msgs (per id) have been sent
Deliver(msgs) ==
  [ id \in DOMAIN rx |-> IF id \in DOMAIN msgs THEN rx[id] \o msgs[id] ELSE rx[id] ]

\* produced after one more token for each request of ids
Count(ids) ==
  [ id \in DOMAIN rx |->
      IF id \in ids THEN (IF id \in DOMAIN produced THEN produced[id] ELSE 0) + 1
      ELSE IF id \in DOMAIN produced THEN produced[id] ELSE 0 ]

clear_caches_first(bids) == << [ op |-> "clear_cache", id |-> bids[1] ] >>

\* for id in batch_ids { client.clear_cache(Some(id)) }
clear_caches(bids) == [ k \in 1..Len(bids) |-> [ op |-> "clear_cache", id |-> bids[k] ] ]

\* prefill / decode on the backend batches ids_of, with the entries map ents:
\* entries left, cached batch returned, messages sent, backend calls made
Forward(op, bids, ids, ents, out) ==
  IF out.ok
    THEN LET f == filter_send_generations({ Generation(id, op = "prefill" /\ out.details, out)
                                             : id \in ids }, ents)
             fb == filter_batch(BackendNext(bids[1], ids, out), f.entries)
         IN [ entries |-> f.entries, cached |-> fb.cached, msgs |-> f.msgs,
              calls |-> << [ op |-> op, ids |-> ids ] >> \o fb.calls,
              some |-> BackendNext(bids[1], ids, out) # << >>,
              next |-> BackendNext(bids[1], ids, out), bids |-> bids ]
    ELSE [ entries |-> {}, cached |-> << >>, msgs |-> send_errors(ents),
           calls |-> << [ op |-> op, ids |-> ids ] >> \o clear_caches(bids),
           some |-> FALSE, next |-> << >>, bids |-> bids ]

prefill(b, ents, out) == Forward("prefill", << b.id >>, b.ids, ents, out)

decode(batches, ents, out) ==
  Forward("decode", [ k \in 1..Len(batches) |-> batches[k].id ],
          UNION { batches[k].request_ids : k \in 1..Len(batches) }, ents, out)

StepRecord(op, out, ents, res) ==
  [ op |-> op, ok |-> out.ok, pre |-> Ids(ents), closed |-> closed,
    post |-> Ids(res.entries), some |-> res.some, cached |-> res.cached,
    next |-> res.next, bids |-> res.bids, sent |-> res.msgs ]

\* Infer::new: the queue is empty and the batching task waits for a notification
LoopInit ==
  /\ config \in LoopConfigs
  /\ entries = << >>
  /\ next_id = 0
  /\ next_batch_id = 0
  /\ last_seen_batch_size = 0
  /\ checked_request_count = 0
  /\ buffer_contents_insufficient = FALSE
  /\ now = 0
  /\ closed = {}
  /\ active = {}
  /\ discarded = {}
  /\ panicked = FALSE
  /\ issued = << >>
  /\ batch_ids = << >>
  /\ call = NoCall
  /\ LoopIdle
  /\ WakeIdle
  /\ FnIdle
  /\ InferIdle

\* generate_stream from its append on: the entry is queued, the task notified
Enqueue(shape, limit) ==
  /\ ~panicked
  /\ UNCHANGED << wakev, fnv >>
  /\ next_id < limit
  /\ entries' = Append(entries, NewEntry(entry_id_of(next_id), shape))
  /\ next_id' = entry_id_after(next_id)
  /\ issued' = Append(issued, entry_id_of(next_id))
  /\ rx' = (entry_id_of(next_id) :> << >>) @@ rx
  /\ notified' = TRUE
  /\ call' = NoCall
  /\ step' = NoStep
  /\ client_calls' = << >>
  /\ UNCHANGED << config, next_batch_id, last_seen_batch_size, checked_request_count,
                  buffer_contents_insufficient, now, closed, active, discarded,
                  panicked, batch_ids, pc, batch, new_entries, cached, new_cached,
                  waiting_tokens, produced, inferv >>

LAppend(shape) == Enqueue(shape, MaxReq)

\* the client drops the receiver of an entry that is waiting or generating
LDropReceiver(id) ==
  /\ ~panicked
  /\ UNCHANGED << wakev, fnv >>
  /\ id \in (Ids(Range(entries)) \cup Ids(active) \cup Ids(new_entries)) \ closed
  /\ Cardinality(closed) < MaxCancel
  /\ closed' = closed \cup { id }
  /\ call' = NoCall
  /\ step' = NoStep
  /\ client_calls' = << >>
  /\ UNCHANGED << config, entries, next_id, next_batch_id, last_seen_batch_size,
                  checked_request_count, buffer_contents_insufficient, now, active,
                  discarded, panicked, issued, batch_ids, pc, notified, batch,
                  new_entries, cached, new_cached, waiting_tokens, rx, produced,
                  inferv >>

\* shared.batching_task.notified().await returns
BT_Wake ==
  /\ ~panicked
  /\ UNCHANGED << wakev, fnv >>
  /\ pc = "idle"
  /\ notified
  /\ notified' = FALSE
  /\ pc' = "outer"
  /\ call' = NoCall
  /\ step' = NoStep
  /\ client_calls' = << >>
  /\ UNCHANGED << config, entries, next_id, next_batch_id, last_seen_batch_size,
                  checked_request_count, buffer_contents_insufficient, now, closed,
                  active, discarded, panicked, issued, batch_ids, batch, new_entries,
                  cached, new_cached, waiting_tokens, rx, produced, inferv >>

\* the queue task panicked: the queue, the batching task and every entry are gone
Teardown ==
  /\ panicked' = TRUE
  /\ pc' = "dead"
  /\ entries' = << >>
  /\ active' = {}
  /\ new_entries' = {}
  /\ batch' = << >>
  /\ cached' = << >>
  /\ new_cached' = << >>
  /\ discarded' = Range(issued)
  /\ UNCHANGED << next_batch_id, last_seen_batch_size, checked_request_count,
                  buffer_contents_insufficient, batch_ids, waiting_tokens >>

\* the queue state after a next_batch call that returned
QueueAfter(r) ==
  /\ entries' = r.entries
  /\ checked_request_count' = r.checked_request_count
  /\ last_seen_batch_size' = r.last_seen_batch_size
  /\ buffer_contents_insufficient' = r.buffer_contents_insufficient
  /\ next_batch_id' = r.next_batch_id
  /\ batch_ids' = IF r.some THEN Append(batch_ids, batch_id_of(next_batch_id))
                            ELSE batch_ids
  /\ panicked' = FALSE

\* ids the call took out of the queue without handing them to the batch
Lost(r) == Ids(Range(entries)) \ (Ids(Range(r.entries)) \cup Ids(Range(r.batch)))

\* while let Some((entries, batch, span)) = queue.next_batch(None, ..).await
BT_Outer ==
  /\ ~panicked
  /\ UNCHANGED << wakev, fnv >>
  /\ pc = "outer"
  /\ \E r \in { next_batch({}) } :
        /\ call' = CallRecord(r, {})
        /\ IF r.panic THEN Teardown
           ELSE /\ QueueAfter(r)
                /\ discarded' = discarded \cup Lost(r)
                /\ active' = Range(r.batch)
                /\ batch' = IF r.some
                              THEN << Batch(batch_id_of(next_batch_id), Range(r.batch)) >>
                              ELSE << >>
                /\ pc' = IF r.some THEN "prefill" ELSE "idle"
                /\ UNCHANGED << new_entries, cached, new_cached, waiting_tokens >>
  /\ step' = NoStep
  /\ client_calls' = << >>
  /\ UNCHANGED << config, next_id, now, closed, issued, notified, rx, produced,
                  inferv >>

\* let mut cached_batch = prefill(..).await; let mut waiting_tokens = 1
BT_Prefill(out) ==
  /\ ~panicked
  /\ UNCHANGED << wakev, fnv >>
  /\ pc = "prefill"
  /\ \E res \in { prefill(batch[1], active, out) } :
        /\ active' = res.entries
        /\ cached' = res.cached
        /\ rx' = Deliver(res.msgs)
        /\ discarded' = discarded \cup (Ids(active) \ Ids(res.entries))
        /\ client_calls' = res.calls
        /\ step' = StepRecord("prefill", out, active, res)
        /\ pc' = IF res.cached # << >> THEN "inner" ELSE "outer"
  /\ produced' = IF out.ok THEN Count(batch[1].ids) ELSE produced
  /\ waiting_tokens' = 1
  /\ batch' = << >>
  /\ call' = NoCall
  /\ UNCHANGED << config, entries, next_id, next_batch_id, last_seen_batch_size,
                  checked_request_count, buffer_contents_insufficient, now, closed,
                  panicked, issued, batch_ids, notified, new_entries, new_cached,
                  inferv >>

\* batching_task's parameters (Infer::new hands them on)
max_waiting_tokens == 2
waiting_served_ratio == [ num |-> 1, den |-> 2 ]

\* the limits of the queue are the limits of the batching task: the weight
\* limit is max_batch_total_tokens and the cap on the entries of a batch is
\* the queue's size_limit
max_batch_total_tokens == config.weight_limit
max_batch_size == << config.size_limit >>

\* batch.max_tokens as the backend may report it: below, at and above
\* max_batch_total_tokens
BatchMaxTokens == { 1, max_batch_total_tokens, max_batch_total_tokens + 2 }

min_size_late(waiting, batch_size) ==
  IF waiting > max_waiting_tokens
    THEN << >>
    ELSE << (batch_size * waiting_served_ratio.num) \div waiting_served_ratio.den >>

\* let min_size = if waiting_tokens >= max_waiting_tokens { None } else
\* { Some((batch_size as f32 * waiting_served_ratio).floor() as usize) };
\* the ratio is a dyadic fraction and the sizes are small, so the f32 product
\* is exact
min_size(waiting, batch_size) ==
  IF waiting >= max_waiting_tokens
    THEN << >>
    ELSE << (batch_size * waiting_served_ratio.num) \div waiting_served_ratio.den >>

token_budget_wrapping(total, max_tokens) == (total - max_tokens) % (2 ^ 16)

\* max_batch_total_tokens.saturating_sub(batch_max_tokens)
token_budget(total, max_tokens) ==
  IF max_tokens >= total THEN 0 ELSE total - max_tokens

\* max_batch_size.map(|max_size| max_size - batch_size as usize): the
\* difference as a number; a negative one is the underflow of the usize
max_size(batch_size) ==
  IF max_batch_size = << >> THEN << >> ELSE << max_batch_size[1] - batch_size >>

\* Queue::next_batch(min_size, max_size, prefill_token_budget, token_budget):
\* with a token budget of zero no batch comes back and the queue is left as
\* it is; otherwise the queue state decides with the existing batch
queue_next_batch(budget, ex) ==
  IF budget = 0
    THEN NoBatch(entries, checked_request_count, last_seen_batch_size,
                 buffer_contents_insufficient, "no_budget", NoScan, entries)
           @@ [ existing |-> ex ]
    ELSE next_batch(ex)

\* the record kept of the extending next_batch call, with its arguments
ExtensionCall(r, max_tokens) ==
  CallRecord(r, active) @@
    [ waiting_tokens |-> waiting_tokens, size |-> cached[1].size,
      max_tokens |-> max_tokens,
      min_size |-> min_size(waiting_tokens, cached[1].size),
      max_size |-> max_size(cached[1].size),
      token_budget |-> token_budget(max_batch_total_tokens, max_tokens) ]

\* while let Some(batch) = cached_batch: try to get a new batch
BT_Inner(max_tokens) ==
  /\ ~panicked
  /\ UNCHANGED << wakev, fnv >>
  /\ pc = "inner"
  /\ \E r \in { queue_next_batch(token_budget(max_batch_total_tokens, max_tokens),
                                  active) } :
        /\ call' = ExtensionCall(r, max_tokens)
        /\ IF r.panic THEN Teardown
           ELSE /\ QueueAfter(r)
                /\ discarded' = discarded \cup Lost(r)
                /\ new_entries' = Range(r.batch)
                /\ batch' = IF r.some
                              THEN << Batch(batch_id_of(next_batch_id), Range(r.batch)) >>
                              ELSE << >>
                /\ pc' = IF r.some THEN "ext_prefill" ELSE "decode"
                /\ active' = r.existing
                /\ UNCHANGED << cached, new_cached, waiting_tokens >>
  /\ step' = NoStep
  /\ client_calls' = << >>
  /\ UNCHANGED << config, next_id, now, closed, issued, notified, rx, produced,
                  inferv >>

extension_entries_all(running, new) == running \cup new

\* the entries map handed to the extension's prefill: &mut new_entries
extension_entries(running, new) == new

\* new_cached_batch = prefill(new_batch, new_entries); waiting_tokens = 1;
\* entries.extend(new_entries) if a cached batch came back
BT_ExtPrefill(out) ==
  /\ ~panicked
  /\ UNCHANGED << wakev, fnv >>
  /\ pc = "ext_prefill"
  /\ \E res \in { prefill(batch[1], extension_entries(active, new_entries), out) } :
        /\ active' = IF res.cached # << >> THEN active \cup res.entries ELSE active
        /\ new_cached' = res.cached
        /\ rx' = Deliver(res.msgs)
        /\ discarded' = discarded \cup
             (Ids(new_entries) \ (IF res.cached # << >> THEN Ids(res.entries) ELSE {}))
        /\ client_calls' = res.calls
        /\ step' = StepRecord("ext_prefill", out, new_entries, res)
  /\ produced' = IF out.ok THEN Count(batch[1].ids) ELSE produced
  /\ waiting_tokens' = 1
  /\ new_entries' = {}
  /\ batch' = << >>
  /\ pc' = "decode"
  /\ call' = NoCall
  /\ UNCHANGED << config, entries, next_id, next_batch_id, last_seen_batch_size,
                  checked_request_count, buffer_contents_insufficient, now, closed,
                  panicked, issued, batch_ids, notified, cached, inferv >>

\* cached_batch = decode(batches, entries).await; waiting_tokens += 1
BT_Decode(out) ==
  /\ ~panicked
  /\ UNCHANGED << wakev, fnv >>
  /\ pc = "decode"
  /\ LET batches == cached \o new_cached
         res == decode(batches, active, out)
     IN /\ active' = res.entries
        /\ cached' = res.cached
        /\ rx' = Deliver(res.msgs)
        /\ discarded' = discarded \cup (Ids(active) \ Ids(res.entries))
        /\ client_calls' = res.calls
        /\ step' = StepRecord("decode", out, active, res)
        /\ pc' = IF res.cached # << >> THEN "inner" ELSE "outer"
        /\ produced' = IF out.ok
                         THEN Count(UNION { batches[k].request_ids : k \in 1..Len(batches) })
                         ELSE produced
  /\ new_cached' = << >>
  /\ waiting_tokens' = waiting_tokens + 1
  /\ call' = NoCall
  /\ UNCHANGED << config, entries, next_id, next_batch_id, last_seen_batch_size,
                  checked_request_count, buffer_contents_insufficient, now, closed,
                  panicked, issued, batch_ids, notified, batch, new_entries, inferv >>

LoopNext ==
  \/ \E shape \in LoopShapes : LAppend(shape)
  \/ \E id \in 0..(MaxReq - 1) : LDropReceiver(id)
  \/ BT_Wake
  \/ BT_Outer
  \/ \E out \in Outcomes(active, Ids(active)) : BT_Prefill(out)
  \/ \E max_tokens \in BatchMaxTokens : BT_Inner(max_tokens)
  \/ \E out \in Outcomes(new_entries, Ids(new_entries)) : BT_ExtPrefill(out)
  \/ \E out \in Outcomes(active, Ids(active)) : BT_Decode(out)

SpecLoop == LoopInit /\ [][LoopNext]_vars


\* C16: a next_batch call with |existing| >= size_limit returns no new batch
\* and leaves the waiting queue as it was; every call that returns a new batch
\* has |existing| + |new batch| <= size_limit.
C16_SizeLimit ==
  IsCall =>
    /\ Cardinality(call.existing) >= config.size_limit =>
         /\ ~call.r.some
         /\ ~call.r.panic
         /\ call.r.entries = call.pre
         /\ entries = call.pre
    /\ call.r.some =>
         Cardinality(call.existing) + Len(call.r.batch) <= config.size_limit

\* a call made with a full batch while entries wait, the first cancelled
C16_Witness ==
  /\ IsCall
  /\ Cardinality(call.existing) >= config.size_limit
  /\ call.pre # << >>
  /\ call.pre[1].id \in call.closed

\* C18: next_batch hands back the existing batch it was given, nothing added,
\* removed or changed, whether or not it returns a new batch.
C18_ExistingUnchanged ==
  (IsCall /\ ~call.r.panic) =>
    /\ call.r.existing = call.existing
    /\ call.existing \subseteq active

\* a call with a running batch returned a new batch
C18_Witness ==
  /\ IsCall
  /\ call.existing # {}
  /\ call.r.some


\* ---------------------------------------------- claims on the batching loop
\* how many times id sits in the waiting queue
InQueue(id) == Cardinality({ i \in 1..Len(entries) : entries[i].id = id })

Places(id) ==
  InQueue(id) + (IF id \in Ids(active) THEN 1 ELSE 0)
              + (IF id \in Ids(new_entries) THEN 1 ELSE 0)
              + (IF id \in discarded THEN 1 ELSE 0)

\* C2: after any sequence of append, next_batch, fan-out and error operations
\* every appended entry is in exactly one of the waiting queue, an active
\* batch map, or discarded; no id is in the queue and an active map at once,
\* and none is twice in the queue or twice in a map.
C2_Exclusivity ==
  /\ \A k \in 1..Len(issued) : Places(issued[k]) = 1
  /\ Cardinality(Ids(active)) = Cardinality(active)
  /\ Cardinality(Ids(new_entries)) = Cardinality(new_entries)

\* the prefill of an extension batch failed: its entries are discarded while
\* the running batch goes on and another entry waits
C2_Witness ==
  /\ step.op = "ext_prefill"
  /\ ~step.ok
  /\ entries # << >>
  /\ active # {}
  /\ discarded # {}

Terminator == { "End", "Err" }

\* Prefill only first, End / Err only last
WellOrdered(s) ==
  /\ \A i \in 1..Len(s) : s[i] = "Prefill" => i = 1
  /\ \A i \in 1..Len(s) : s[i] \in Terminator => i = Len(s)

Terminated(s) == s # << >> /\ s[Len(s)] \in Terminator

\* C7: on every receiver the client keeps open the messages delivered form
\* Prefill? Intermediate* (End | Err): at most one Prefill and only first,
\* nothing after the terminating message, and a receiver whose entry has left
\* the queue and the batch maps has received its terminating End or Err.
C7_Ordering ==
  ~panicked =>
    \A id \in DOMAIN rx :
      id \notin closed =>
        /\ WellOrdered(rx[id])
        /\ id \in discarded => Terminated(rx[id])

IsForward == step.op \in { "prefill", "ext_prefill", "decode" }

\* entries of the step whose receiver had been dropped, and the ones kept
Gone == step.pre \cap step.closed

LoopConsistent ==
  /\ pc \in { "inner", "decode", "ext_prefill" } =>
        /\ cached # << >>
        /\ UNION { (cached \o new_cached)[k].request_ids : k \in 1..Len(cached \o new_cached) }
             = Ids(active)
  /\ pc \in { "prefill", "ext_prefill" } => batch # << >>
  /\ pc = "prefill" => batch[1].ids = Ids(active)
  /\ pc = "ext_prefill" => batch[1].ids = Ids(new_entries)
  /\ pc \in { "idle", "outer" } => active = {}


\* ------------------------------------------------------------ generate_stream
max_concurrent_requests == 2    \* Semaphore::new(max_concurrent_requests)
MaxCallers == 3                 \* callers of generate_stream

Callers == 0..(MaxCallers - 1)

try_acquire_never_fails(free) == FALSE

\* limit_concurrent_requests.try_acquire_owned() is Err: no permit is free
try_acquire_fails(free) == free = 0

\* Infer::new: every permit is free, no caller is inside generate_stream
InferInit ==
  /\ config \in LoopConfigs
  /\ entries = << >>
  /\ next_id = 0
  /\ next_batch_id = 0
  /\ last_seen_batch_size = 0
  /\ checked_request_count = 0
  /\ buffer_contents_insufficient = FALSE
  /\ now = 0
  /\ closed = {}
  /\ active = {}
  /\ discarded = {}
  /\ panicked = FALSE
  /\ issued = << >>
  /\ batch_ids = << >>
  /\ call = NoCall
  /\ LoopIdle
  /\ WakeIdle
  /\ FnIdle
  /\ permits = max_concurrent_requests
  /\ gs = [ c \in Callers |-> "idle" ]
  /\ validations = 0
  /\ gs_last = NoReturn

Returned(c, at, result) == [ caller |-> c, at |-> at, result |-> result ]

\* generate_stream up to validate(request).await: Overloaded is returned when
\* no permit is free, else the permit is taken and validation starts
GS_Acquire(c) ==
  /\ UNCHANGED << wakev, fnv >>
  /\ gs[c] = "idle"
  /\ IF try_acquire_fails(permits)
       THEN /\ gs_last' = Returned(c, "acquire", "Overloaded")
            /\ UNCHANGED << permits, gs, validations >>
       ELSE /\ validations < MaxReq
            /\ permits' = permits - 1
            /\ gs' = [ gs EXCEPT ![c] = "validating" ]
            /\ validations' = validations + 1
            /\ gs_last' = Returned(c, "acquire", "pending")
  /\ UNCHANGED << qvars, loopv >>

drop_permit_leaked(free) == free

\* the OwnedSemaphorePermit goes out of scope: its permit is free again
drop_permit(free) == free + 1

\* validation failed: the error is returned and the permit dropped
GS_Invalid(c) ==
  /\ UNCHANGED << wakev, fnv >>
  /\ gs[c] = "validating"
  /\ permits' = drop_permit(permits)
  /\ gs' = [ gs EXCEPT ![c] = "idle" ]
  /\ gs_last' = Returned(c, "validate", "ValidationError")
  /\ UNCHANGED << qvars, loopv, validations >>

\* validation passed: the entry is appended, the batching task notified and
\* the permit returned with the stream
GS_Valid(c, shape) ==
  /\ UNCHANGED << wakev, fnv >>
  /\ gs[c] = "validating"
  /\ entries' = Append(entries, NewEntry(entry_id_of(next_id), shape))
  /\ next_id' = entry_id_after(next_id)
  /\ issued' = Append(issued, entry_id_of(next_id))
  /\ rx' = (entry_id_of(next_id) :> << >>) @@ rx
  /\ notified' = TRUE
  /\ gs' = [ gs EXCEPT ![c] = "streaming" ]
  /\ gs_last' = Returned(c, "validate", "Ok")
  /\ UNCHANGED << config, next_batch_id, last_seen_batch_size, checked_request_count,
                  buffer_contents_insufficient, now, closed, active, discarded,
                  panicked, batch_ids, call, pc, batch, new_entries, cached,
                  new_cached, waiting_tokens, produced, client_calls, step,
                  permits, validations >>

\* the caller drops the permit it was returned
GS_Release(c) ==
  /\ UNCHANGED << wakev, fnv >>
  /\ gs[c] = "streaming"
  /\ permits' = drop_permit(permits)
  /\ gs' = [ gs EXCEPT ![c] = "idle" ]
  /\ gs_last' = NoReturn
  /\ UNCHANGED << qvars, loopv, validations >>

InferNext ==
  \/ \E c \in Callers : GS_Acquire(c)
  \/ \E c \in Callers : GS_Invalid(c)
  \/ \E c \in Callers, shape \in LoopShapes : GS_Valid(c, shape)
  \/ \E c \in Callers : GS_Release(c)

SpecInfer == InferInit /\ [][InferNext]_vars

\* callers that hold a permit
Held == { c \in DOMAIN gs : gs[c] # "idle" }

\* C10: the permits held never exceed max_concurrent_requests; a call of
\* generate_stream made while all are held returns Overloaded at once and
\* leaves the validation count, the queue and the notifier untouched.
C10_ConcurrencyLimit ==
  /\ [](Cardinality(Held) <= max_concurrent_requests /\ permits >= 0)
  /\ [][ (/\ gs_last' # NoReturn
          /\ gs_last'.at = "acquire"
          /\ Cardinality(Held) = max_concurrent_requests)
        => /\ gs_last'.result = "Overloaded"
           /\ UNCHANGED << validations, entries, notified, permits, gs >> ]_vars

\* a call was refused while every permit was held
C10_Witness ==
  /\ gs_last # NoReturn
  /\ gs_last.result = "Overloaded"
  /\ Cardinality(Held) = max_concurrent_requests
  /\ entries # << >>


\* ------------------------------------------ claims on backend errors and filtering
IsClear(c) == c.op = "clear_cache"
IsPrune(c) == c.op \in { "clear_cache", "filter_batch" }

\* the clear_cache calls, and the clear_cache / filter_batch calls, of the step
ClearCalls == SelectSeq(client_calls, IsClear)
PruneCalls == SelectSeq(client_calls, IsPrune)

\* each entry of the failed step was sent Err alone, or nothing if its
\* receiver was gone
ErrSent ==
  \A id \in step.pre :
    /\ id \in discarded
    /\ id \notin Ids(active) \cup Ids(new_entries)
    /\ step.sent[id] = IF id \in step.closed THEN << >> ELSE << "Err" >>
    /\ id \notin step.closed =>
         /\ WellOrdered(rx[id])
         /\ rx[id][Len(rx[id])] = "Err"

\* C11: when the backend's prefill of a batch fails, every entry of the batch
\* leaves the entries map and is sent exactly one Err (nothing if its receiver
\* is gone), clear_cache is called once with that batch's id, prefill returns
\* no cached batch, and no decode is entered for that batch.
C11_PrefillError ==
  (step.op \in { "prefill", "ext_prefill" } /\ ~step.ok) =>
    /\ step.post = {}
    /\ ErrSent
    /\ \A id \in step.pre \ step.closed : rx[id] = << "Err" >>
    /\ ClearCalls = << [ op |-> "clear_cache", id |-> step.bids[1] ] >>
    /\ step.cached = << >>
    /\ step.op = "prefill" => (pc = "outer" /\ cached = << >>)
    /\ step.op = "ext_prefill" =>
         /\ new_cached = << >>
         /\ cached # << >>
         /\ cached[1].request_ids \cap step.pre = {}

\* the prefill of a batch of two or more failed
C11_Witness ==
  /\ step.op = "prefill"
  /\ ~step.ok
  /\ Cardinality(step.pre \ step.closed) >= 2

\* C12: when the backend's decode fails, clear_cache is called once for the
\* id of each cached batch passed to it, every entry of the active map is
\* sent Err and removed, and the inner loop exits.
C12_DecodeError ==
  (step.op = "decode" /\ ~step.ok) =>
    /\ active = {}
    /\ step.post = {}
    /\ ErrSent
    /\ ClearCalls = [ k \in 1..Len(step.bids) |->
                        [ op |-> "clear_cache", id |-> step.bids[k] ] ]
    /\ cached = << >>
    /\ new_cached = << >>
    /\ pc = "outer"

\* a decode over a running and a freshly merged batch failed
C12_Witness ==
  /\ step.op = "decode"
  /\ ~step.ok
  /\ Len(step.bids) = 2
  /\ Cardinality(step.pre) >= 2

\* C15: when a generation arrives for an entry whose channel is closed,
\* nothing is sent to it and the entry leaves the entries map in that step.
C15_ClosedChannel ==
  (IsForward /\ step.ok) =>
    \A id \in Gone :
      /\ step.sent[id] = << >>
      /\ id \notin step.post
      /\ id \notin Ids(active) \cup Ids(new_entries)
      /\ id \in discarded

\* a generation arrived for an entry that had received tokens and then closed
C15_Witness ==
  /\ IsForward
  /\ step.ok
  /\ \E id \in Gone : rx[id] # << >>

\* C19: prefill and decode return a cached batch exactly when an entry
\* remains in the entries map after fan-out and filtering; when a successful
\* call returns none, the map is empty and every open receiver has its End.
C19_CachedIffRemaining ==
  (IsForward /\ step.ok) =>
    /\ step.cached # << >> <=> step.post # {}
    /\ step.cached = << >> =>
         \A id \in step.pre \ step.closed :
           Terminated(rx[id]) /\ rx[id][Len(rx[id])] = "End"

\* the backend kept a batch of which no entry was left
C19_Witness ==
  /\ IsForward
  /\ step.ok
  /\ step.next # << >>
  /\ step.cached = << >>

\* C20: filter_batch calls nothing when the batch's size equals the number
\* of entries left; else clear_cache(batch id) and no batch when none of its
\* request ids is left; else filter_batch(batch id, the request ids left).
C20_FilterBatch ==
  (IsForward /\ step.ok /\ step.next # << >>) =>
    LET nb == step.next[1]
        live == nb.request_ids \cap step.post
    IN IF nb.size = Cardinality(step.post)
         THEN PruneCalls = << >> /\ step.cached = step.next
       ELSE IF live = {}
         THEN /\ PruneCalls = << [ op |-> "clear_cache", id |-> nb.id ] >>
              /\ step.cached = << >>
       ELSE /\ PruneCalls = << [ op |-> "filter_batch", id |-> nb.id, ids |-> live ] >>
            /\ step.cached = << CachedBatch(nb.id, live) >>

\* a prefill result was filtered down to the entries left
C20_Witness ==
  /\ step.op = "prefill"
  /\ step.ok
  /\ \E k \in 1..Len(client_calls) : client_calls[k].op = "filter_batch"


\* ------------------------------------------------- the loop after an error
\* the prefill of the first batch, entry 0 alone, has just failed: the
\* batching task is back at its outer next_batch call
RecoverInit ==
  /\ config \in LoopConfigs
  /\ entries = << >>
  /\ next_id = 1
  /\ next_batch_id = 1
  /\ last_seen_batch_size = 0
  /\ checked_request_count = 0
  /\ buffer_contents_insufficient = FALSE
  /\ now = 0
  /\ closed = {}
  /\ active = {}
  /\ discarded = { 0 }
  /\ panicked = FALSE
  /\ issued = << 0 >>
  /\ batch_ids = << 0 >>
  /\ call = NoCall
  /\ pc = "outer"
  /\ notified = FALSE
  /\ batch = << >>
  /\ new_entries = {}
  /\ cached = << >>
  /\ new_cached = << >>
  /\ waiting_tokens = 1
  /\ rx = (0 :> << "Err" >>)
  /\ produced = << >>
  /\ client_calls = << [ op |-> "prefill", ids |-> { 0 } ],
                        [ op |-> "clear_cache", id |-> 0 ] >>
  /\ step = [ op |-> "prefill", ok |-> FALSE, pre |-> { 0 }, closed |-> {},
              post |-> {}, some |-> FALSE, cached |-> << >>, next |-> << >>,
              bids |-> << 0 >>, sent |-> (0 :> << "Err" >>) ]
  /\ InferIdle
  /\ WakeIdle
  /\ FnIdle

\* MaxReq further requests arrive after the failure
RAppend(shape) == Enqueue(shape, MaxReq + 1)

RecoverNext ==
  \/ \E shape \in LoopShapes : RAppend(shape)
  \/ \E id \in 1..MaxReq : LDropReceiver(id)
  \/ BT_Wake
  \/ BT_Outer
  \/ \E out \in Outcomes(active, Ids(active)) : BT_Prefill(out)
  \/ \E max_tokens \in BatchMaxTokens : BT_Inner(max_tokens)
  \/ \E out \in Outcomes(new_entries, Ids(new_entries)) : BT_ExtPrefill(out)
  \/ \E out \in Outcomes(active, Ids(active)) : BT_Decode(out)

SpecRecover == RecoverInit /\ [][RecoverNext]_vars

\* entries appended after the failure of entry 0
Late == { id \in DOMAIN rx : id >= 1 }

\* C13: after a backend error the batching task keeps running, and no entry
\* appended afterwards whose receiver stays open leaves the queue and the
\* batch maps without having been prefilled (a prefill sends it a token or Err).
C13_Survives ==
  /\ ~panicked
  /\ \A id \in Late : (id \in discarded /\ id \notin closed) => rx[id] # << >>


\* ------------------------------------------- append, notify and the queue task
WakeConfigs ==
  { [ batch_type |-> "flash", size_limit |-> 2, weight_limit |-> 6,
      prefill_weight_limit |-> 2 ] }

\* the one caller of generate_stream that is followed
WakeCallers == { 0 }

\* QueueCommand::Append(entry) and QueueCommand::NextBatch { entries: None }
AppendCommand(c, shape) ==
  [ cmd |-> "Append", caller |-> c, il |-> shape[1], ol |-> shape[2],
    queue_time |-> now ]

NextBatchCommand == [ cmd |-> "NextBatch" ]

Appends(ch) == { k \in 1..Len(ch) : ch[k].cmd = "Append" }

\* Infer::new
WakeInit ==
  /\ config \in WakeConfigs
  /\ entries = << >>
  /\ next_id = 0
  /\ next_batch_id = 0
  /\ last_seen_batch_size = 0
  /\ checked_request_count = 0
  /\ buffer_contents_insufficient = FALSE
  /\ now = 0
  /\ closed = {}
  /\ active = {}
  /\ discarded = {}
  /\ panicked = FALSE
  /\ issued = << >>
  /\ batch_ids = << >>
  /\ call = NoCall
  /\ LoopIdle
  /\ WakeIdle
  /\ FnIdle
  /\ permits = 0
  /\ gs = [ c \in WakeCallers |-> "idle" ]
  /\ validations = 0
  /\ gs_last = NoReturn

\* generate_stream: self.queue.append(Entry { .. queue_time: Instant::now() })
W_Send(c, shape) ==
  /\ ~panicked
  /\ gs[c] = "idle"
  /\ next_id + Cardinality(Appends(chan)) < MaxReq
  /\ chan' = Append(chan, AppendCommand(c, shape))
  /\ gs' = [ gs EXCEPT ![c] = "appended" ]
  /\ UNCHANGED << qvars, loopv, permits, validations, gs_last, seen, fnv >>

\* generate_stream: self.shared.batching_task.notify_one()
W_Notify(c) ==
  /\ ~panicked
  /\ gs[c] = "appended"
  /\ notified' = TRUE
  /\ gs' = [ gs EXCEPT ![c] = "idle" ]
  /\ UNCHANGED << qvars, pc, batch, new_entries, cached, new_cached, waiting_tokens,
                  rx, produced, client_calls, step, permits, validations, gs_last,
                  wakev, fnv >>

\* Queue::next_batch: the NextBatch command is sent, the answer awaited
W_Ask ==
  /\ ~panicked
  /\ pc = "outer"
  /\ chan' = Append(chan, NextBatchCommand)
  /\ pc' = "await"
  /\ UNCHANGED << qvars, notified, batch, new_entries, cached, new_cached,
                  waiting_tokens, rx, produced, client_calls, step, inferv, seen, fnv >>

\* queue_task: Append(entry) => state.append(entry)
ServeAppend(c) ==
  /\ entries' = Append(entries, [ id |-> entry_id_of(next_id), il |-> c.il, ol |-> c.ol,
                                  generated_tokens |-> 0, queue_time |-> c.queue_time,
                                  batch_time |-> NoTime ])
  /\ next_id' = entry_id_after(next_id)
  /\ issued' = Append(issued, entry_id_of(next_id))
  /\ rx' = (entry_id_of(next_id) :> << >>) @@ rx
  /\ UNCHANGED << config, next_batch_id, last_seen_batch_size, checked_request_count,
                  buffer_contents_insufficient, now, closed, active, discarded,
                  panicked, batch_ids, call, pc, notified, batch, new_entries,
                  cached, new_cached, waiting_tokens, produced, client_calls, step,
                  seen >>

\* queue_task: NextBatch => response_sender.send(state.next_batch(entries));
\* the batching task receives the answer
ServeNextBatch ==
  \E r \in { next_batch({}) } :
     /\ call' = CallRecord(r, {})
     /\ IF r.panic THEN Teardown /\ UNCHANGED seen
        ELSE /\ QueueAfter(r)
             /\ discarded' = discarded \cup Lost(r)
             /\ active' = Range(r.batch)
             /\ batch' = IF r.some
                           THEN << Batch(batch_id_of(next_batch_id), Range(r.batch)) >>
                           ELSE << >>
             /\ pc' = IF r.some THEN "prefill" ELSE "idle"
             /\ seen' = seen \cup r.reached
             /\ UNCHANGED << new_entries, cached, new_cached, waiting_tokens >>
     /\ UNCHANGED << config, next_id, now, closed, issued, notified, rx, produced,
                     client_calls, step >>

\* queue_task: while let Ok(cmd) = receiver.recv_async().await
Q_Serve ==
  /\ ~panicked
  /\ chan # << >>
  /\ chan' = IF Head(chan).cmd = "NextBatch" /\ next_batch({}).panic
               THEN << >> ELSE Tail(chan)
  /\ IF Head(chan).cmd = "Append" THEN ServeAppend(Head(chan)) ELSE ServeNextBatch
  /\ UNCHANGED << inferv, fnv >>

\* the backend answers a prefill with an error or with the last token of
\* every request
WakeOutcomes(ents, ids) ==
  { out \in Outcomes(ents, ids) : ~out.ok \/ (ids \subseteq out.fin /\ ~out.details) }

WakeNext ==
  \/ \E c \in WakeCallers, shape \in Shapes : W_Send(c, shape)
  \/ \E c \in WakeCallers : W_Notify(c)
  \/ \E id \in 0..(MaxReq - 1) : DropReceiver(id)
  \/ Tick
  \/ BT_Wake
  \/ W_Ask
  \/ Q_Serve
  \/ \E out \in WakeOutcomes(active, Ids(active)) : BT_Prefill(out)

SpecWake == WakeInit /\ [][WakeNext]_vars

\* the Append commands whose caller has not yet notified: the last one of a
\* caller that stands between append and notify_one
Unnotified(ch) ==
  { k \in Appends(ch) :
      /\ gs[ch[k].caller] = "appended"
      /\ \A j \in Appends(ch) : ch[j].caller = ch[k].caller => j <= k }

\* nobody is about to call next_batch or to make the batching task do so
Quiescent ==
  /\ pc = "idle"
  /\ ~notified
  /\ chan = << >>
  /\ \A c \in DOMAIN gs : gs[c] = "idle"

\* a notified append is served before the next_batch that follows the
\* notification, and the batching task does not sleep on a notified append
AppendBeforeNextBatch ==
  /\ (pc = "idle" /\ ~notified) => Appends(chan) \subseteq Unnotified(chan)
  /\ (pc = "await" /\ ~notified) =>
        \A k \in Appends(chan) \ Unnotified(chan) :
          \E j \in 1..Len(chan) : j > k /\ chan[j].cmd = "NextBatch"

\* C14: no lost wakeup. An append is served by the queue task before the
\* next_batch that follows its notification; the batching task never sleeps
\* while a notified append is unserved; and every entry appended and notified
\* is reached by the scan of a next_batch call: none with an open receiver
\* has left the queue unreached, and none is still unreached once the
\* batching task sleeps with nothing pending.
C14_NoLostWakeup ==
  /\ AppendBeforeNextBatch
  /\ \A id \in discarded \ closed : id \in seen
  /\ Quiescent => \A k \in 1..Len(entries) :
                     entries[k].id \notin closed => entries[k].id \in seen


\* the entry as it waited: batch_time not yet written
Unstamped(e) == [ e EXCEPT !.batch_time = NoTime ]

BatchTimeSet ==
  /\ \A k \in 1..Len(entries) : entries[k].batch_time = NoTime
  /\ \A e \in active \cup new_entries : e.batch_time # NoTime
  /\ (IsCall /\ call.r.some) =>
        \A k \in 1..Len(call.r.batch) :
          /\ call.r.batch[k].batch_time = call.at
          /\ \E j \in 1..Len(call.pre) : call.pre[j] = Unstamped(call.r.batch[k])

\* C17: batch_time is written once, by the next_batch call that moves the
\* entry from the waiting queue into a batch: it is unset while the entry
\* waits, all entries of a returned batch carry the instant of the call,
\* every entry of an active batch map has it set, and an entry enters or
\* stays in the map only as the call returned it.
C17_BatchTime ==
  /\ []BatchTimeSet
  /\ [][ \A e \in active' :
           \/ e \in active
           \/ call'.op = "next_batch" /\ e \in Range(call'.r.batch) ]_vars

\* a batch of two entries queued at different instants was returned
C17_Witness ==
  /\ IsCall
  /\ call.r.some
  /\ Len(call.r.batch) = 2
  /\ call.r.batch[1].queue_time # call.r.batch[2].queue_time
  /\ call.at > call.r.batch[1].queue_time
  /\ call.at > call.r.batch[2].queue_time

\* ------------------------------------------------------------------
\* Infer::generate: the stream of one request folded into one response

NoResponse == [ prefill |-> FALSE, tokens |-> << >>, generated_text |-> FALSE,
                err |-> FALSE ]

\* one arm of `match response?`; a token is named by its place in the stream
on_response(acc, m, k) ==
  IF m = "Prefill" THEN [ acc EXCEPT !.prefill = TRUE ]
  ELSE IF m = "Intermediate" THEN [ acc EXCEPT !.tokens = Append(@, k) ]
  ELSE [ acc EXCEPT !.tokens = Append(@, k), !.generated_text = TRUE ]

\* while let Some(response) = stream.next().await { match response? { .. } }
RECURSIVE consume(_, _, _)
consume(stream, k, acc) ==
  IF k > Len(stream) THEN acc
  ELSE IF stream[k] = "Err" THEN [ acc EXCEPT !.err = TRUE ]
  ELSE consume(stream, k + 1, on_response(acc, stream[k], k))

end_observed_always(acc) == TRUE

\* if let (Some(generated_text), Some(queued), Some(start)) = ..
end_observed(acc) == acc.generated_text

\* generate on a stream that has ended (or yielded Err)
generate(stream) ==
  LET acc == consume(stream, 1, NoResponse)
  IN IF acc.err THEN [ result |-> "Err", tokens |-> << >> ]
     ELSE IF end_observed(acc) THEN [ result |-> "Ok", tokens |-> acc.tokens ]
     ELSE [ result |-> "IncompleteGeneration", tokens |-> << >> ]

\* the streams generate has read to their end: the sender is gone (the entry
\* left the queue and the batch maps) and the receiver was never dropped
Ended == { id \in DOMAIN rx : id \in discarded /\ id \notin closed }

Among(s, m) == { k \in 1..Len(s) : s[k] = m }

\* C21: generate returns Ok only if the stream carried End; a stream that
\* ends with neither End nor Err gives IncompleteGeneration, a stream that
\* yields Err gives that error; on Ok the tokens are those of the
\* Intermediate messages and of the End, in delivery order.
C21_Generate ==
  \A id \in Ended :
    \A g \in { generate(rx[id]) } :
      /\ g.result = "Ok" => Among(rx[id], "End") # {}
      /\ (Among(rx[id], "End") = {} /\ Among(rx[id], "Err") = {})
           => g.result = "IncompleteGeneration"
      /\ Among(rx[id], "Err") # {} => g.result = "Err"
      /\ g.result = "Ok" =>
           /\ Len(g.tokens) = Cardinality(Among(rx[id], "Intermediate")) + 1
           /\ \A i \in 1..Len(g.tokens) :
                rx[id][g.tokens[i]] \in { "Intermediate", "End" }
           /\ \A i, j \in 1..Len(g.tokens) : i < j => g.tokens[i] < g.tokens[j]

\* one stream ended with Prefill, an Intermediate and End, another ended at an
\* error
C21_Witness ==
  /\ \E id \in Ended : /\ generate(rx[id]).result = "Ok"
                       /\ Len(generate(rx[id]).tokens) >= 2
                       /\ rx[id][1] = "Prefill"
  /\ \E id \in Ended : generate(rx[id]).result = "Err"

\* ------------------------------------------------------------------
\* generate_stream: a request that validation rejects

\* C22: when validation rejects a request generate_stream returns
\* ValidationError, the queue and its channel are as before, the notifier is
\* not signalled, and the permit taken for the call is free again: the free
\* permits are always those no caller holds.
C22_ValidationError ==
  /\ [](permits + Cardinality(Held) = max_concurrent_requests)
  /\ [][ (gs_last' # NoReturn /\ gs_last'.result = "ValidationError")
         => /\ gs_last'.at = "validate"
            /\ gs[gs_last'.caller] = "validating"
            /\ gs'[gs_last'.caller] = "idle"
            /\ permits' = permits + 1
            /\ UNCHANGED << entries, next_id, issued, rx, notified, chan >> ]_vars

\* a request was rejected before anything was ever queued or notified, while
\* another caller holds a permit
C22_Witness ==
  /\ gs_last # NoReturn
  /\ gs_last.result = "ValidationError"
  /\ ~notified
  /\ entries = << >>
  /\ permits = max_concurrent_requests - 1

\* ------------------------------------------------------------------
\* function studies: the scheduler does not run while a function is applied

SchedulerIdle ==
  /\ config \in LoopConfigs
  /\ entries = << >>
  /\ next_id = 0
  /\ next_batch_id = 0
  /\ last_seen_batch_size = 0
  /\ checked_request_count = 0
  /\ buffer_contents_insufficient = FALSE
  /\ now = 0
  /\ closed = {}
  /\ active = {}
  /\ discarded = {}
  /\ panicked = FALSE
  /\ issued = << >>
  /\ batch_ids = << >>
  /\ call = NoCall
  /\ LoopIdle
  /\ WakeIdle
  /\ InferIdle

\* ------------------------------------------------------------------
\* raise_exception and a chat template that calls it
\* (the template of test_chat_template_invalid_with_raise)

MaxMessages == 4        \* messages of one chat request

Roles == { "user", "assistant", "system" }

MUST_ALTERNATE == "Conversation roles must alternate user/assistant/user/assistant/..."
ONLY_USER_ASSISTANT == "Only user and assistant roles are supported!"

ChatRequests ==
  UNION { [ 1..n -> Roles ] : n \in 0..MaxMessages }

raise_exception_returns(err_text) == [ ok |-> TRUE, value |-> err_text ]

\* Err(minijinja::Error::new(ErrorKind::SyntaxError, err_text))
raise_exception(err_text) ==
  [ ok |-> FALSE, kind |-> "SyntaxError", detail |-> err_text ]

\* {{ f(..) }}: the value is written, an Err ends the rendering with that error
Emit(r, x) ==
  IF r.at # "loop" THEN r
  ELSE IF x.ok THEN [ r EXCEPT !.out = Append(@, x.value) ]
  ELSE [ at |-> "failed", index0 |-> r.index0, out |-> r.out, error |-> x ]

Text(s) == [ ok |-> TRUE, value |-> s ]

\* {% if (message['role'] == 'user') != (loop.index0 % 2 == 0) %}
out_of_turn(role, index0) == (role = "user") # (index0 % 2 = 0)

\* one pass through the body of {% for message in messages %}
render_message(r, role) ==
  LET r1 == IF out_of_turn(role, r.index0)
              THEN Emit(r, raise_exception(MUST_ALTERNATE)) ELSE r
      r2 == IF role = "user" THEN Emit(r1, Text("[INST] content [/INST]"))
            ELSE IF role = "assistant" THEN Emit(r1, Text("content[EOS]"))
            ELSE Emit(r1, raise_exception(ONLY_USER_ASSISTANT))
  IN IF r2.at = "loop" THEN [ r2 EXCEPT !.index0 = @ + 1 ] ELSE r2

\* ChatTemplate::apply: render is called on the messages; {{ bos_token }}
TemplateInit ==
  /\ SchedulerIdle
  /\ args \in ChatRequests
  /\ ret = [ at |-> "loop", index0 |-> 0, out |-> << "[BOS]" >> ]

T_Message ==
  /\ ret.at = "loop"
  /\ ret.index0 < Len(args)
  /\ ret' = render_message(ret, args[ret.index0 + 1])
  /\ UNCHANGED << qvars, loopv, inferv, wakev, args >>

\* {% endfor %}: render returns Ok(output)
T_EndFor ==
  /\ ret.at = "loop"
  /\ ret.index0 = Len(args)
  /\ ret' = [ ret EXCEPT !.at = "rendered" ]
  /\ UNCHANGED << qvars, loopv, inferv, wakev, args >>

TemplateNext == T_Message \/ T_EndFor

SpecTemplate == TemplateInit /\ [][TemplateNext]_vars

\* the messages at which the template reaches a raise_exception call, with
\* the text it passes
Raises(i) ==
  IF out_of_turn(args[i], i - 1) THEN << MUST_ALTERNATE >>
  ELSE IF args[i] \notin { "user", "assistant" } THEN << ONLY_USER_ASSISTANT >>
  ELSE << >>

\* C23: raise_exception(msg) is an error whose detail is msg, for every msg;
\* a rendering fails with exactly the error of the first raise_exception call
\* it reaches, and a rendering that returned output reached none.
C23_RaiseException ==
  /\ \A msg \in { MUST_ALTERNATE, ONLY_USER_ASSISTANT, "" } :
       ~raise_exception(msg).ok /\ raise_exception(msg).detail = msg
  /\ ret.at = "failed" =>
       /\ Raises(ret.index0 + 1) = << ret.error.detail >>
       /\ \A i \in 1..ret.index0 : Raises(i) = << >>
  /\ ret.at = "loop" => \A i \in 1..ret.index0 : Raises(i) = << >>
  /\ ret.at = "rendered" => \A i \in 1..Len(args) : Raises(i) = << >>

\* a rendering failed at its fourth message, after three were written
C23_Witness ==
  /\ ret.at = "failed"
  /\ ret.index0 = 3
  /\ Len(ret.out) = 4
  /\ ret.error.detail = ONLY_USER_ASSISTANT

\* ------------------------------------------------------------------
\* the queue scan: what one next_batch call removes from the waiting queue

\* ids the call took out of the waiting queue
Removed == Ids(Range(call.pre)) \ Ids(Range(call.r.entries))

\* cancelled entries popped from the queue front before the scan
FrontPopped ==
  Ids(Range(call.pre)) \ Ids(Range(call.r.scanned_from))

\* C24: every entry a next_batch call removes from the waiting queue had a
\* closed response channel at the time of the call or is in the batch the
\* call returns.
C24_NoLiveEntryLost ==
  (IsCall /\ ~call.r.panic) =>
    \A id \in Removed : id \in call.closed \/ id \in BatchIds

\* C25: every closed-channel entry the call visits, at the queue front or at
\* a position its scan reached, is out of the waiting queue when it returns.
C25_CancelledRemoved ==
  (IsCall /\ ~call.r.panic) =>
    \A id \in (FrontPopped \cup call.r.reached) \cap call.closed :
      id \notin Ids(Range(call.r.entries))

\* C26: the returned batch holds exactly the entries that passed the weight
\* and prefill checks of the scan, in queue order.
C26_PoppedAreChosen ==
  (Emitted /\ ~call.r.panic) =>
    [ k \in 1..Len(call.r.batch) |-> call.r.batch[k].id ] = call.r.picked

\* C27: next_batch never panics: every popped index is in the queue and the
\* saved cursor is within the queue when the scan range is taken.
C27_NoPanic ==
  /\ ~panicked
  /\ IsCall => ~call.r.panic

CursorInRange == IsCall => call.r.path # "range"
ExpectHolds == IsCall => call.r.path # "expect"

\* C28: a candidate is let past without the detailed exceeds_weight analysis
\* only if the weight of the batch with the candidate added,
\* batch_weight(update_stats(batch_stats, input_len, output_len), total + 1),
\* is within weight_limit.
C28_CoarseTest ==
  IsCall =>
    \A k \in 1..Len(call.r.unchecked) :
      call.r.unchecked[k].weight <= config.weight_limit

\* ------------------------------------------------------------------
\* BatchType::exceeds_weight applied to trees of projected tuples

MaxTuples == 3          \* tuples of one tree
MaxOut == 2             \* largest output length of a tuple
MaxIn == 2              \* largest input length of a tuple

\* max_total_weight values offered
Limits == { 3, 6, 17, 30 }

\* BTreeSet<(usize, usize, &u64)>: (output_len, input_len, id), ids distinct
Trees ==
  UNION { { { << f[i][1], f[i][2], i >> : i \in 0..(n - 1) }
            : f \in [ 0..(n - 1) -> (0..MaxOut) \X (1..MaxIn) ] }
          : n \in 1..MaxTuples }

\* next_batch calls exceeds_weight(tree, config.weight_limit, output_len) with
\* the candidate's tuple in the tree
WeightInit ==
  /\ SchedulerIdle
  /\ args \in { [ tree |-> t, max_total_weight |-> w, current_output_len |-> c ]
                : t \in Trees, w \in Limits, c \in 0..MaxOut }
  /\ \E t \in args.tree : t[1] = args.current_output_len
  /\ ret = [ fn |-> "none" ]

X_Flash ==
  /\ ret.fn = "none"
  /\ ret' = [ fn |-> "flash",
              value |-> Flash_exceeds_weight(args.tree, args.max_total_weight,
                                             args.current_output_len) ]
  /\ UNCHANGED << qvars, loopv, inferv, wakev, args >>

X_Padded ==
  /\ ret.fn = "none"
  /\ ret' = [ fn |-> "padded",
              value |-> Padded_exceeds_weight(args.tree, args.max_total_weight,
                                              args.current_output_len) ]
  /\ UNCHANGED << qvars, loopv, inferv, wakev, args >>

WeightNext == X_Flash \/ X_Padded

SpecWeight == WeightInit /\ [][WeightNext]_vars

\* the tuples in descending order, and the inputs of the first k of them
Ranked == TreeRev(args.tree)

RECURSIVE InputsTo(_)
InputsTo(k) == IF k = 0 THEN 0 ELSE Ranked[k][2] + InputsTo(k - 1)

\* the tuple at rank k weighs more than the limit
FlashBreach(k) ==
  InputsTo(k) + k * Ranked[k][1] > args.max_total_weight

\* C29 as stated: exceeds_weight is true exactly when some tuple at rank k
\* with remaining_output >= cur has (inputs of ranks 1..k) + k * remaining_output
\* above max.
C29_AsStated ==
  ret.fn = "flash" =>
    (ret.value <=> \E k \in 1..Len(Ranked) :
                     Ranked[k][1] >= args.current_output_len /\ FlashBreach(k))

\* C29: FlashBatch::exceeds_weight is true exactly when some tuple at rank k
\* with remaining_output <= cur has (inputs of ranks 1..k) + k * remaining_output
\* above max: the tiers the candidate is still part of.
C29_FlashExceeds ==
  ret.fn = "flash" =>
    (ret.value <=> \E k \in 1..Len(Ranked) :
                     Ranked[k][1] <= args.current_output_len /\ FlashBreach(k))

\* true was returned for a breach at the third rank while a longer tuple,
\* above cur, weighs more than the limit on its own
C29_Witness ==
  /\ ret.fn = "flash"
  /\ ret.value
  /\ Len(Ranked) = 3
  /\ Ranked[1][1] > args.current_output_len
  /\ FlashBreach(1)
  /\ ~FlashBreach(2)
  /\ Ranked[3][1] <= args.current_output_len

\* a longer tuple above cur breaches the limit and false was returned
C29_Untested ==
  /\ ret.fn = "flash"
  /\ ~ret.value
  /\ Ranked[1][1] > args.current_output_len
  /\ FlashBreach(1)

\* the tuples still running at output length o, their largest input
Tier(o) == { t \in args.tree : t[1] >= o }
TierMaxIn(o) == CHOOSE m \in { t[2] : t \in Tier(o) } : \A t \in Tier(o) : t[2] <= m

\* C30: PaddedBatch::exceeds_weight is true exactly when, for some tier of
\* equal remaining_output o the candidate is still part of, with m the largest
\* input and r the number of the tuples whose remaining_output >= o,
\* (m + o)^2 * r is above max; tiers of several tuples and the tier 0 included.
C30_PaddedExceeds ==
  ret.fn = "padded" =>
    (ret.value <=>
       \E o \in { t[1] : t \in args.tree } :
         /\ o <= args.current_output_len
         /\ ((TierMaxIn(o) + o) * (TierMaxIn(o) + o)) * Cardinality(Tier(o))
              > args.max_total_weight)

\* ------------------------------------------------------------------
\* the size floor for a batch that extends a running one

\* the entries the scan chose, and the weight of the batch with them added
PickedEntries == { e \in Range(call.r.scanned_from) : e.id \in Range(call.r.picked) }

ChosenWeight ==
  batch_weight(config.batch_type,
               compute_stats(config.batch_type,
                             call.existing \cup { Existing(e) : e \in PickedEntries }),
               Cardinality(call.existing) + Len(call.r.picked))

\* the head of the waiting queue has waited longer than MAX_WAITING_DURATION
HeadLate ==
  /\ call.r.scanned_from # << >>
  /\ call.at - call.r.scanned_from[1].queue_time > MAX_WAITING_DURATION

FloorApplies ==
  /\ IsCall /\ ~call.r.panic
  /\ call.existing # {}
  /\ call.r.picked # << >>

FloorMet ==
  \/ ChosenWeight >= config.weight_limit \div 2
  \/ call.r.hit
  \/ HeadLate

OpenKept ==
  \A e \in Range(call.pre) : e.id \notin call.closed => e \in Range(call.r.entries)

Deferred ==
  /\ ~call.r.some
  /\ call.r.checked_request_count
       = call.r.start + Len(call.r.picked) + Len(call.r.skipped)
  /\ call.r.buffer_contents_insufficient

\* C31: a batch that would extend a non-empty existing batch is emitted only
\* if its weight with the existing batch is at least weight_limit / 2, or the
\* prefill limit was hit in the scan, or the head entry waited longer than
\* MAX_WAITING_DURATION; otherwise the call returns no batch, keeps every
\* open-channel entry in the queue, saves the cursor and marks the buffer
\* insufficient.
C31_SizeFloor ==
  FloorApplies =>
    /\ call.r.some => FloorMet
    /\ ~FloorMet => Deferred /\ OpenKept

\* the floor itself, without what becomes of the waiting entries
FloorDecision == FloorApplies => (call.r.some => FloorMet) /\ (~FloorMet => Deferred)

\* C32: a scan that rejected a candidate on the prefill weight limit has
\* hit_prefill_weight_limit set, whether or not the projected multiset was
\* built, and what it chose to extend a non-empty existing batch is emitted
\* without the size floor.
C32_PrefillHit ==
  (IsCall /\ ~call.r.panic /\ call.r.prefill_rejected # << >>) =>
    /\ call.r.hit
    /\ (call.existing # {} /\ call.r.picked # << >>) => call.r.some

\* C33: an append made while the buffer is marked insufficient makes the next
\* next_batch call with the same non-empty existing batch scan the queue again,
\* whether or not the head entry has waited MAX_WAITING_DURATION.
C33_AppendRescans ==
  [][ ( /\ call.op = "append" /\ call.insufficient
        /\ call'.op = "next_batch"
        /\ call'.existing # {}
        /\ Cardinality(call'.existing) = call'.last_seen )
      => call'.r.path # "nothing_new" ]_vars

\* ------------------------------------------------------ C34: the scan cursor
\* the call got past the size check (queue.rs:324-327)
PastSizeCheck == IsCall /\ ~call.r.panic /\ call.r.path # "full"

\* the call examined entries of the queue
Scanned == call.r.path \notin { "full", "nothing_new" }

\* the cursor is reset before the scan (queue.rs:329-341)
Restart == Cardinality(call.existing) # call.last_seen \/ FrontPopped # {}

\* where the call takes up the queue (queue.rs:345, 368)
Resume == IF Restart THEN 0 ELSE call.cursor

\* what holds of the cursor in every call: the start of the scan, the return
\* without a scan, the cursor after an emitted batch and the size remembered
CursorRule ==
  /\ PastSizeCheck =>
       /\ Scanned => call.r.start = Resume
       /\ (call.existing # {} /\ Len(call.r.scanned_from) <= Resume)
             => call.r.path = "nothing_new"
       /\ call.r.some => call.r.checked_request_count = 0
       /\ call.r.last_seen_batch_size = Cardinality(call.existing)
  /\ (IsCall /\ call.r.path = "full") => call.cursor = 0

\* a call that returns no batch moves the cursor only if it chose nothing
RecordedByIdleScan ==
  (PastSizeCheck /\ ~call.r.some /\ call.r.checked_request_count # Resume)
     => call.r.picked = << >>

\* C34: a next_batch call starts its scan at queue index 0 when the size of the
\* existing batch differs from the previous call's, when a closed entry was
\* popped from the queue front, and after a call that emitted a batch;
\* otherwise it resumes at the position recorded by the last call that chose
\* nothing, and with a non-empty existing batch and no entry beyond that
\* position it returns no batch without scanning.
C34_ScanCursor == CursorRule /\ RecordedByIdleScan

\* ------------------------------------- C35, C36: the waiting-token counter
\* the step is the extending next_batch call of the inner loop
ExtensionStep == pc = "inner" /\ call'.op = "next_batch"

\* the step is the prefill of an extension batch; Merged: a cached batch came back
ExtPrefillStep == step'.op = "ext_prefill"
Merged == step'.cached # << >>

\* the minimum size handed to the extending call
MinSizePassed ==
  ExtensionStep =>
    LET s == cached[1].size
        r == waiting_served_ratio
    IN /\ (call'.min_size = << >>) <=> (waiting_tokens >= max_waiting_tokens)
       /\ call'.min_size # << >> =>
            /\ call'.min_size[1] * r.den <= s * r.num
            /\ s * r.num < (call'.min_size[1] + 1) * r.den

\* waiting_tokens is 1 after the prefill of a batch and after a merged
\* extension, one more after each decode, and unchanged by any other step
CountsDecodes ==
  waiting_tokens' =
    IF step'.op = "prefill" \/ (ExtPrefillStep /\ Merged) THEN 1
    ELSE IF step'.op = "decode" THEN waiting_tokens + 1
    ELSE waiting_tokens

\* C35: the minimum extension size handed to next_batch is None exactly when
\* waiting_tokens >= max_waiting_tokens and floor(cached.size *
\* waiting_served_ratio) otherwise, and waiting_tokens is 1 plus the number
\* of decode steps since the batch was prefilled or last extended.
C35_MinSize == [][ MinSizePassed /\ CountsDecodes ]_vars

\* the min_size half alone
C35_MinSizeOnly == [][ MinSizePassed ]_vars

\* C36: the prefill of an extension batch resets waiting_tokens to 1 when it
\* returns a cached batch and leaves it as it is when it returns none.
C36_ResetOnMerge ==
  [][ ExtPrefillStep =>
        waiting_tokens' = IF Merged THEN 1 ELSE waiting_tokens ]_vars

\* -------------------------------- C37: the prefill of an extension fails
FailedExtension == step'.op = "ext_prefill" /\ ~step'.ok

\* C37: when the prefill of an extension batch fails, the extension's entries
\* are sent Err and clear_cache is called for the extension batch id, and for
\* nothing else; the entries of the running batch are sent nothing and stay
\* in the active map, and the decode that follows runs on the running cached
\* batch alone.
C37_ExtensionFailure ==
  [][ /\ FailedExtension =>
           /\ \A id \in DOMAIN rx :
                rx'[id] = IF id \in Ids(new_entries) \ closed
                            THEN Append(rx[id], "Err") ELSE rx[id]
           /\ client_calls' = << [ op |-> "prefill", ids |-> batch[1].ids ],
                                 [ op |-> "clear_cache", id |-> batch[1].id ] >>
           /\ Ids(active) \cap Ids(new_entries) = {}
           /\ active' = active /\ cached' = cached /\ new_cached' = << >>
      /\ (step.op = "ext_prefill" /\ ~step.ok /\ step'.op = "decode") =>
           /\ step'.bids = << cached[1].id >>
           /\ step'.pre = Ids(active)
           /\ step'.pre \cap step.pre = {}
           /\ client_calls'[1] = [ op |-> "decode", ids |-> cached[1].request_ids ]
    ]_vars

\* the prefill of an extension has failed next to a running batch whose
\* entries have been sent tokens only
C37_Witness ==
  /\ step.op = "ext_prefill" /\ ~step.ok /\ pc = "decode"
  /\ \E id \in step.pre : rx[id] = << "Err" >>
  /\ active # {} /\ cached # << >>
  /\ \A e \in active : rx[e.id] # << >> /\ \A k \in DOMAIN rx[e.id] : rx[e.id][k] # "Err"

\* ------------------------------------------ C38: the extension's token budget
\* C38: the token budget handed to the extending next_batch is
\* max(0, max_batch_total_tokens - cached.max_tokens); when cached.max_tokens
\* >= max_batch_total_tokens it is 0, no extension batch comes back, nothing
\* is sent to any entry and the loop goes on to decode.
C38_TokenBudget ==
  [][ ExtensionStep =>
        LET d == max_batch_total_tokens - call'.max_tokens
            b == call'.token_budget
        IN /\ b >= 0 /\ b >= d /\ b \in { 0, d }
           /\ call'.max_tokens >= max_batch_total_tokens =>
                /\ b = 0
                /\ ~call'.r.some /\ ~call'.r.panic
                /\ pc' = "decode" /\ ~panicked'
                /\ rx' = rx /\ entries' = entries /\ active' = active
                /\ new_entries' = {}
    ]_vars

\* an extending call made with max_tokens above the limit while an entry
\* with an open receiver waits in the queue
C38_Witness ==
  /\ call.op = "next_batch" /\ pc = "decode"
  /\ "token_budget" \in DOMAIN call
  /\ call.max_tokens > max_batch_total_tokens /\ call.token_budget = 0
  /\ \E k \in DOMAIN call.pre : call.pre[k].id \notin call.closed
  /\ ~call.r.some

\* ------------------------------------ C39: the extension's maximum size
\* the task is inside the inner decode loop
InInnerLoop == pc \in { "inner", "ext_prefill", "decode" }

MaxBatchSizes == 2      \* entries of the batch_size list
MaxWarmups == 2
MaxRuns == 2

\* the arguments of generation_task that decide the messages
BenchRequests ==
  [ batch_size : UNION { [ 1..n -> { 1, 2 } ] : n \in 0..MaxBatchSizes },
    warmups : 0..MaxWarmups,
    n_runs : 0..MaxRuns ]

\* Ok(Message::..) as it is put on run_sender; Run carries the batch size
Ok(m) == [ ok |-> TRUE, m |-> m, batch_size |-> 0 ]
OkRun(b) == [ ok |-> TRUE, m |-> "Run", batch_size |-> b ]
ClientErr == [ ok |-> FALSE, m |-> "Err", batch_size |-> 0 ]

after_decode_swapped(b) == << OkRun(b), Ok("Decode") >>

\* send(Ok(Message::Decode(..))) and then send(Ok(Message::Run(Run { batch_size: b, .. })))
after_decode(b) == << Ok("Decode"), OkRun(b) >>

\* generate_runs at the head of a loop: batch k of the list, `phase` with i
\* iterations done and s sent so far; it runs on to the next backend call or
\* to its return, sending EndBatch where a batch size is finished
RECURSIVE LoopHead(_, _, _, _, _)
LoopHead(a, k, phase, i, s) ==
  IF k > Len(a.batch_size)
    THEN [ pc |-> "returned_ok", k |-> k, phase |-> "none", i |-> 0,
           at |-> "none", sent |-> s ]
  ELSE IF phase = "warmup"
    THEN IF i < a.warmups
           THEN [ pc |-> "running", k |-> k, phase |-> phase, i |-> i,
                  at |-> "prefill", sent |-> s ]
           ELSE LoopHead(a, k, "run", 0, s)
  ELSE IF i < a.n_runs
    THEN [ pc |-> "running", k |-> k, phase |-> phase, i |-> i,
           at |-> "prefill", sent |-> s ]
    ELSE LoopHead(a, k + 1, "warmup", 0, Append(s, Ok("EndBatch")))

\* `?` on a backend error: generate_runs returns Err(err)
ReturnedErr(r) == [ r EXCEPT !.pc = "returned_err", !.at = "none" ]

\* generation_task is spawned: generate_runs runs up to its first backend call
BenchInit ==
  /\ SchedulerIdle
  /\ args \in BenchRequests
  /\ ret = LoopHead(args, 1, "warmup", 0, << >>)

\* prefill(sequence, b, decode_length, client).await? of a warmup or a run
GR_Prefill(ok) ==
  /\ ret.pc = "running" /\ ret.at = "prefill"
  /\ ret' = IF ~ok THEN ReturnedErr(ret)
            ELSE [ ret EXCEPT !.at = "decode",
                              !.sent = IF ret.phase = "run"
                                         THEN Append(@, Ok("Prefill")) ELSE @ ]
  /\ UNCHANGED << qvars, loopv, inferv, wakev, args >>

\* decode(decode_batch, client).await? and the sends that follow it
GR_Decode(ok) ==
  /\ ret.pc = "running" /\ ret.at = "decode"
  /\ ret' = IF ~ok THEN ReturnedErr(ret)
            ELSE LoopHead(args, ret.k, ret.phase, ret.i + 1,
                          IF ret.phase = "warmup"
                            THEN Append(ret.sent, Ok("Warmup"))
                            ELSE ret.sent \o after_decode(args.batch_size[ret.k]))
  /\ UNCHANGED << qvars, loopv, inferv, wakev, args >>

\* select!: generate_runs is ready; if let Err(err) = res { run_sender.send(Err(err)) }
GT_Result ==
  /\ ret.pc \in { "returned_ok", "returned_err" }
  /\ ret' = [ ret EXCEPT !.pc = IF ret.pc = "returned_ok" THEN "finished" ELSE "failed",
                         !.sent = IF ret.pc = "returned_err"
                                    THEN Append(@, ClientErr) ELSE @ ]
  /\ UNCHANGED << qvars, loopv, inferv, wakev, args >>

\* select!: shutdown_receiver.recv() is ready first; generate_runs is dropped
GT_Shutdown ==
  /\ ret.pc \in { "running", "returned_ok", "returned_err" }
  /\ ret' = [ ret EXCEPT !.pc = "shutdown" ]
  /\ UNCHANGED << qvars, loopv, inferv, wakev, args >>

BenchNext ==
  \/ \E ok \in BOOLEAN : GR_Prefill(ok)
  \/ \E ok \in BOOLEAN : GR_Decode(ok)
  \/ GT_Result
  \/ GT_Shutdown

SpecBench == BenchInit /\ [][BenchNext]_vars

\* the messages of one batch size b, and of a list of batch sizes from k on
OneRun(b) == << Ok("Prefill"), Ok("Decode"), OkRun(b) >>

RECURSIVE Times(_, _)
Times(s, n) == IF n = 0 THEN << >> ELSE s \o Times(s, n - 1)

RECURSIVE Expected(_, _)
Expected(a, k) ==
  IF k > Len(a.batch_size) THEN << >>
  ELSE Times(<< Ok("Warmup") >>, a.warmups)
         \o Times(OneRun(a.batch_size[k]), a.n_runs)
         \o << Ok("EndBatch") >>
         \o Expected(a, k + 1)

IsPrefix(s, t) == Len(s) <= Len(t) /\ \A j \in 1..Len(s) : s[j] = t[j]

OkPart(s) == SelectSeq(s, LAMBDA x : x.ok)
ErrCount(s) == Len(SelectSeq(s, LAMBDA x : ~x.ok))

\* C40: the Ok messages are sent in the order Warmup * warmups, then
\* (Prefill, Decode, Run) * n_runs, then one EndBatch, for each batch size in
\* turn; a run without a backend error sends all of them and no Err; a backend
\* error is followed by no Ok message and by exactly one Err, the last message.
C40_MessageOrder ==
  /\ IsPrefix(OkPart(ret.sent), Expected(args, 1))
  /\ ErrCount(ret.sent) <= 1
  /\ ErrCount(ret.sent) = 1 => ~ret.sent[Len(ret.sent)].ok /\ ret.pc = "failed"
  /\ ret.pc \in { "returned_ok", "finished" } => ret.sent = Expected(args, 1)
  /\ ret.pc = "failed" => ErrCount(ret.sent) = 1
  /\ ret.pc = "returned_err" => ErrCount(ret.sent) = 0

\* the second of two batch sizes failed in the decode of its second run,
\* after two warmups
C40_Witness ==
  /\ ret.pc = "failed"
  /\ Len(args.batch_size) = 2 /\ args.warmups = 2 /\ args.n_runs = 2
  /\ ret.k = 2 /\ ret.phase = "run" /\ ret.i = 1
  /\ ret.sent[Len(ret.sent) - 1] = Ok("Prefill")

====
